---- MODULE Spec2Model ----
(***************************************************************************)
(* Model of the `tolerance` crate: the fixed-point length types Myth16,    *)
(* Myth32 and Myth64 (src/src/myths.rs), the tolerance types T64 and T128   *)
(* (src/src/tols.rs), the unit table (src/src/unit.rs) and the decimal     *)
(* parser (src/src/lib.rs).                                                *)
(*                                                                         *)
(* Machine integers.  The crate computes with i16, i32 and i64.  TLC's own *)
(* integers are 32 bits wide, so an integer of the program is a record     *)
(* [neg, dig]: a sign and the decimal digits of the magnitude, most        *)
(* significant first, without leading zeros (zero is [FALSE, <<>>]).       *)
(* Arithmetic on these records is exact; a result is then brought into the *)
(* width of its Rust type the way the build does it: `overflow_checks`     *)
(* on (cargo's dev and test profiles) panics, off (the release profile)    *)
(* wraps modulo 2^w.                                                       *)
(***************************************************************************)
EXTENDS Integers, Sequences, FiniteSets, TLC

VARIABLES
    overflow_checks,  \* the build: TRUE panics on overflow, FALSE wraps
    ty,               \* the type in use: "T64", "T128" or one of the Myths
    ta,               \* the value the caller holds (the left operand)
    tb,               \* a second value the caller holds (the right operand)
    steps,            \* how many operators were applied to ta so far
    op,               \* the operation applied last ("init" before the first)
    arg,              \* the inputs of that operation
    res               \* what it returned

vars == <<overflow_checks, ty, ta, tb, steps, op, arg, res>>

\* `let v = x;` followed by F(v): x is evaluated once
Let(x, F(_)) == CHOOSE r \in {F(v) : v \in {x}} : TRUE

----------------------------------------------------------------------------
(* Exact integers as digit sequences.                                      *)

RECURSIVE NStrip(_)
NStrip(d) == IF d # <<>> /\ Head(d) = 0 THEN NStrip(Tail(d)) ELSE d

Front(d) == SubSeq(d, 1, Len(d) - 1)
Last(d) == d[Len(d)]

RECURSIVE NCmpEq(_, _)
NCmpEq(a, b) ==
    IF a = <<>> THEN 0
    ELSE IF Head(a) < Head(b) THEN -1
    ELSE IF Head(a) > Head(b) THEN 1
    ELSE NCmpEq(Tail(a), Tail(b))

NCmp(a, b) ==
    IF Len(a) < Len(b) THEN -1
    ELSE IF Len(a) > Len(b) THEN 1
    ELSE NCmpEq(a, b)

RECURSIVE NAddC(_, _, _)
NAddC(a, b, c) ==
    IF a = <<>> /\ b = <<>> THEN (IF c = 0 THEN <<>> ELSE <<c>>)
    ELSE LET da == IF a = <<>> THEN 0 ELSE Last(a)
             db == IF b = <<>> THEN 0 ELSE Last(b)
             s  == da + db + c
         IN Append(NAddC(IF a = <<>> THEN a ELSE Front(a),
                         IF b = <<>> THEN b ELSE Front(b),
                         s \div 10),
                   s % 10)

NAdd(a, b) == NAddC(a, b, 0)

RECURSIVE NSubB(_, _, _)
NSubB(a, b, c) ==
    IF a = <<>> THEN <<>>
    ELSE LET db == IF b = <<>> THEN 0 ELSE Last(b)
             s  == Last(a) - db - c
         IN Append(NSubB(Front(a),
                         IF b = <<>> THEN b ELSE Front(b),
                         IF s < 0 THEN 1 ELSE 0),
                   IF s < 0 THEN s + 10 ELSE s)

\* a - b for a >= b
NSub(a, b) == NStrip(NSubB(a, b, 0))

RECURSIVE NMulC(_, _, _)
NMulC(a, k, c) ==
    IF a = <<>> THEN (IF c = 0 THEN <<>> ELSE NMulC(<<0>>, k, c))
    ELSE LET s == Last(a) * k + c
         IN Append(NMulC(Front(a), k, s \div 10), s % 10)

\* a * k for a TLC natural k
NMul(a, k) == NStrip(NMulC(a, k, 0))

RECURSIVE NDivModR(_, _, _, _)
NDivModR(a, m, q, r) ==
    IF a = <<>> THEN [q |-> NStrip(q), r |-> r]
    ELSE LET t == r * 10 + Head(a)
         IN NDivModR(Tail(a), m, Append(q, t \div m), t % m)

\* quotient (digits) and remainder (a TLC natural) of a by a TLC natural m > 0
NDivMod(a, m) == NDivModR(a, m, <<>>, 0)

RECURSIVE NDigits(_)
NDigits(n) == IF n = 0 THEN <<>> ELSE Append(NDigits(n \div 10), n % 10)

RECURSIVE NValue(_, _)
NValue(d, acc) == IF d = <<>> THEN acc ELSE NValue(Tail(d), acc * 10 + Head(d))

W(neg, dig) == [neg |-> neg /\ dig # <<>>, dig |-> dig]

\* a TLC integer as an integer of the program, and back
I(n) == IF n < 0 THEN W(TRUE, NDigits(0 - n)) ELSE W(FALSE, NDigits(n))
ToInt(x) == IF x.neg THEN 0 - NValue(x.dig, 0) ELSE NValue(x.dig, 0)

WNeg(x) == W(~x.neg, x.dig)

WAdd(x, y) ==
    IF x.neg = y.neg THEN W(x.neg, NAdd(x.dig, y.dig))
    ELSE IF NCmp(x.dig, y.dig) >= 0 THEN W(x.neg, NSub(x.dig, y.dig))
    ELSE W(y.neg, NSub(y.dig, x.dig))

WSub(x, y) == WAdd(x, WNeg(y))

WCmp(x, y) ==
    IF x.neg # y.neg THEN (IF x.neg THEN -1 ELSE 1)
    ELSE IF x.neg THEN NCmp(y.dig, x.dig)
    ELSE NCmp(x.dig, y.dig)

WLt(x, y) == WCmp(x, y) < 0
WLe(x, y) == WCmp(x, y) <= 0
WGe(x, y) == WCmp(x, y) >= 0
WGt(x, y) == WCmp(x, y) > 0

\* x * k, x / k and x % k for a TLC integer k; / truncates toward zero and
\* % takes the sign of x, as Rust's operators do
WMulI(x, k) == IF k < 0 THEN W(~x.neg, NMul(x.dig, 0 - k)) ELSE W(x.neg, NMul(x.dig, k))
WDivI(x, k) ==
    IF k < 0 THEN W(~x.neg, NDivMod(x.dig, 0 - k).q) ELSE W(x.neg, NDivMod(x.dig, k).q)
WRemI(x, k) ==
    LET r == NDivMod(x.dig, IF k < 0 THEN 0 - k ELSE k).r
    IN IF x.neg THEN 0 - r ELSE r

----------------------------------------------------------------------------
(* Integers of a Rust width.                                               *)

I16 == 16
I32 == 32
I64 == 64

\* iN::MAX, iN::MIN and 2^N
MaxOf(w) ==
    CASE w = I16 -> [neg |-> FALSE, dig |-> <<3,2,7,6,7>>]
      [] w = I32 -> [neg |-> FALSE, dig |-> <<2,1,4,7,4,8,3,6,4,7>>]
      [] w = I64 -> [neg |-> FALSE, dig |-> <<9,2,2,3,3,7,2,0,3,6,8,5,4,7,7,5,8,0,7>>]

MinOf(w) ==
    CASE w = I16 -> [neg |-> TRUE, dig |-> <<3,2,7,6,8>>]
      [] w = I32 -> [neg |-> TRUE, dig |-> <<2,1,4,7,4,8,3,6,4,8>>]
      [] w = I64 -> [neg |-> TRUE, dig |-> <<9,2,2,3,3,7,2,0,3,6,8,5,4,7,7,5,8,0,8>>]

Modulus(w) ==
    CASE w = I16 -> [neg |-> FALSE, dig |-> <<6,5,5,3,6>>]
      [] w = I32 -> [neg |-> FALSE, dig |-> <<4,2,9,4,9,6,7,2,9,6>>]
      [] w = I64 -> [neg |-> FALSE, dig |-> <<1,8,4,4,6,7,4,4,0,7,3,7,0,9,5,5,1,6,1,6>>]

InRange(w, x) == WLe(MinOf(w), x) /\ WLe(x, MaxOf(w))

\* two's complement truncation to w bits: Rust's `as` cast, and what an
\* overflowing operator leaves behind when the build does not check it
\* (x is moved by multiples of 2^w: first by the decimal shifts m of 2^w
\* while the magnitude of x reaches them, last by 2^w itself into the range)
RECURSIVE WrapShift(_, _, _, _)
WrapShift(w, x, m, last) ==
    IF WGt(x, MaxOf(w)) /\ (last \/ NCmp(x.dig, m) >= 0)
    THEN WrapShift(w, WSub(x, W(FALSE, m)), m, last)
    ELSE IF WLt(x, MinOf(w)) /\ (last \/ NCmp(x.dig, m) >= 0)
    THEN WrapShift(w, WAdd(x, W(FALSE, m)), m, last)
    ELSE x

RECURSIVE WrapBy(_, _, _, _)
WrapBy(w, x, m, last) ==
    WrapShift(w,
              IF NCmp(x.dig, Append(m, 0)) >= 0 THEN WrapBy(w, x, Append(m, 0), FALSE) ELSE x,
              m, last)

Wrap(w, x) == WrapBy(w, x, Modulus(w).dig, TRUE)

\* a panic (an `assert!`, an `expect`, or an overflow the build checks)
Panic == [panic |-> TRUE]
IsPanic(r) == "panic" \in DOMAIN r

\* the exact result x of a +, -, * or unary - computed in a w-bit integer
Arith(w, x) ==
    Let(x, LAMBDA v : IF InRange(w, v) THEN v
                      ELSE IF overflow_checks THEN Panic
                      ELSE Wrap(w, v))

\* Result<_, ToleranceError>
Ok(v) == [ok |-> v]
Err(kind) == [err |-> kind]
IsOk(r) == "ok" \in DOMAIN r
IsErr(r) == "err" \in DOMAIN r

\* iN::try_from(x): TryFromIntError becomes ToleranceError::Overflow
TryFromInt(w, x) == IF InRange(w, x) THEN Ok(x) ELSE Err("Overflow")

----------------------------------------------------------------------------
(* The Myth types: a newtype around i16, i32 or i64 counting 1/10 um.      *)
(* A Myth is modelled by its tick count; its width travels as w.           *)

\* Neg for $Self: Self(-self.0)
MythNeg(w, x) == Arith(w, WNeg(x))

\* Add<$Target> for $Self: the other operand is brought to $typ by try_from
\* (.expect), then added with the primitive +
MythAdd(w, a, b) == IF ~InRange(w, b) THEN Panic ELSE Arith(w, WAdd(a, b))

\* Sub<$Target> for $Self
MythSub(w, a, b) == IF ~InRange(w, b) THEN Panic ELSE Arith(w, WSub(a, b))

MythTypes == {"Myth16", "Myth32", "Myth64"}
WidthOf(t) == CASE t = "Myth16" -> I16 [] t = "Myth32" -> I32 [] t = "Myth64" -> I64

\* $Self::try_from(value: $Target) for a wider Myth $Target, that is
\* Self::try_from(value.0).  Myth16 and Myth32 take an i64 through
\* try_from_number (checked).  Myth16 has no checked conversion from i32:
\* Myth16::try_from(i32) resolves to the blanket TryFrom of
\* `impl From<i32> for Myth16`, which casts with `as i16` and cannot fail.
try_from_myths(target, source, x) ==
    IF target = "Myth16" /\ source = "Myth32" THEN Ok(Wrap(I16, x))
    ELSE TryFromInt(WidthOf(target), x)

\* Unit::potency(p): (0..p).fold(1i64, |acc, _| acc * 10), for p < 10
RECURSIVE potency(_)
potency(p) == IF p = 0 THEN 1 ELSE potency(p - 1) * 10

\* Unit * $typ: Unit(self.0 * rhs as i64)
UnitMul(u, k) == u * k

\* From<Unit> for $typ: value.0 as $typ, the multiplier cut to w bits
UnitAs(w, u) == ToInt(Wrap(w, I(u)))

\* a / 2 of the primitive integers (truncates toward zero)
Half(m) == IF m < 0 THEN 0 - ((0 - m) \div 2) ELSE m \div 2

\* one further primitive - or + on a w-bit intermediate result
MinusI(w, a, k) ==
    Let(a, LAMBDA v : IF IsPanic(v) THEN Panic ELSE Arith(w, WSub(v, I(k))))
PlusI(w, a, k) ==
    Let(a, LAMBDA v : IF IsPanic(v) THEN Panic ELSE Arith(w, WAdd(v, I(k))))

\* self.0 % m: a zero divisor panics in every build, and so does MIN % -1
RemPanics(w, x, m) == m = 0 \/ (m = -1 /\ x = MinOf(w))

\* round(&self, unit): the multiplier u of the unit is a TLC integer
round(w, x, u) ==
    IF u = 0 THEN x
    ELSE Let(UnitAs(w, u), LAMBDA m :
            IF RemPanics(w, x, m) THEN Panic
            ELSE Let(WRemI(x, m), LAMBDA clip :
                    IF clip = 0 THEN x
                    ELSE IF clip <= 0 - Half(m) THEN MinusI(w, MinusI(w, x, clip), m)
                    ELSE IF clip >= Half(m) THEN PlusI(w, MinusI(w, x, clip), m)
                    ELSE MinusI(w, x, clip)))

\* floor(&self, unit): $typ::try_from(*unit).expect(..) checks the range
floor(w, x, u) ==
    IF ~InRange(w, I(u)) THEN Panic
    ELSE IF RemPanics(w, x, u) THEN Panic
    ELSE Let(WRemI(x, u), LAMBDA clip :
            IF x.neg THEN MinusI(w, MinusI(w, x, clip), u)
            ELSE MinusI(w, x, clip))

----------------------------------------------------------------------------
(* Text.  A string is a record [str |-> <<c1, .., cn>>] of its characters. *)

Str(cs) == [str |-> cs]
IsStr(r) == "str" \in DOMAIN r

\* Option<_>
None == [none |-> TRUE]
Some(v) == [some |-> v]
IsSome(o) == "some" \in DOMAIN o

\* ToleranceError::ParseError(message); msg names the message
ParseErr(msg) == [err |-> "ParseError", msg |-> msg]

DigitChars == <<"0", "1", "2", "3", "4", "5", "6", "7", "8", "9">>
IsDigit(c) == \E d \in 1..10 : DigitChars[d] = c
DigitOf(c) == (CHOOSE d \in 1..10 : DigitChars[d] = c) - 1

RECURSIVE Zeros(_)
Zeros(n) == IF n <= 0 THEN <<>> ELSE <<"0">> \o Zeros(n - 1)

RECURSIVE Chars(_)
Chars(dig) == IF dig = <<>> THEN <<>> ELSE <<DigitChars[Head(dig) + 1]>> \o Chars(Tail(dig))

\* Display of a primitive integer: format!("{val}") and format!("{val:+}")
FmtInt(val, sign_plus) ==
    (IF val.neg THEN <<"-">> ELSE IF sign_plus THEN <<"+">> ELSE <<>>)
        \o (IF val.dig = <<>> THEN <<"0">> ELSE Chars(val.dig))

\* format!("{val:0l$}") and format!("{val:+0l$}"): the zeros go between
\* the sign and the digits until the text is l characters long
FmtPad(val, l, sign_plus) ==
    LET sign == IF val.neg THEN <<"-">> ELSE IF sign_plus THEN <<"+">> ELSE <<>>
        digs == IF val.dig = <<>> THEN <<"0">> ELSE Chars(val.dig)
    IN sign \o Zeros(l - Len(sign) - Len(digs)) \o digs

\* String::insert(idx, c) and String::truncate(len)
Insert(cs, idx, c) == SubSeq(cs, 1, idx) \o <<c>> \o SubSeq(cs, idx + 1, Len(cs))
Truncate(cs, len) == IF len < Len(cs) THEN SubSeq(cs, 1, len) ELSE cs

Min(a, b) == IF a < b THEN a ELSE b

\* Display for $Self with the formatter's precision (None or Some(p)),
\* its + flag and its # flag; the result is the text, or Panic
MythDisplay(w, x, precision, sign_plus, alternate) ==
    Let(IF IsSome(precision) THEN Min(precision.some, 4)
        ELSE IF WRemI(x, 1000) = 0 THEN 1
        ELSE IF WRemI(x, 100) = 0 THEN 2
        ELSE IF WRemI(x, 10) = 0 THEN 3
        ELSE 4, LAMBDA p :
    IF alternate THEN Str(FmtInt(x, sign_plus))
    ELSE Let(round(w, x, potency(4 - p)), LAMBDA val :
         IF IsPanic(val) THEN Panic
         ELSE Let(FmtPad(val, IF val.neg \/ sign_plus THEN 6 ELSE 5, sign_plus), LAMBDA s :
              Let(IF p > 0 THEN Insert(s, Len(s) - 4, ".") ELSE s, LAMBDA d :
                  Str(Truncate(d, Len(d) - (4 - p)))))))

\* A character is a string: a character of ASCII is itself ("7", " ",
\* "\t"), any other one, and a control character that has no escape, is
\* named by its code point in hexadecimal ("U+00E9" is e with acute,
\* "U+000B" the vertical tab).
HexDigits ==
    <<"0", "1", "2", "3", "4", "5", "6", "7", "8", "9", "A", "B", "C", "D", "E", "F">>
HexLower ==
    <<"0", "1", "2", "3", "4", "5", "6", "7", "8", "9", "a", "b", "c", "d", "e", "f">>
HexValue(h) == CHOOSE v \in 0..15 : h \in {HexDigits[v + 1], HexLower[v + 1]}

RECURSIVE FromHex(_, _, _)
FromHex(c, i, acc) ==
    IF i > Len(c) THEN acc
    ELSE FromHex(c, i + 1, acc * 16 + HexValue(SubSeq(c, i, i)))

\* the code point of a character that is named by it
code_point(c) == FromHex(c, 3, 0)

\* char::is_whitespace: the characters with the property White_Space
WhiteSpace ==
    (9..13) \cup {32, 133, 160, 5760} \cup (8192..8202)
    \cup {8232, 8233, 8239, 8287, 12288}
is_whitespace(c) ==
    IF Len(c) = 1 THEN c \in {"\t", "\n", "\f", "\r", " "}
    ELSE code_point(c) \in WhiteSpace

\* char::len_utf8: the bytes of the character in a str
len_utf8(c) ==
    IF Len(c) = 1 THEN 1
    ELSE Let(code_point(c), LAMBDA code :
             IF code < 128 THEN 1
             ELSE IF code < 2048 THEN 2
             ELSE IF code < 65536 THEN 3
             ELSE 4)

\* str::split_at(mid).0: the characters in the first mid bytes; a mid
\* inside a character or behind the end panics
RECURSIVE split_at(_, _)
split_at(cs, mid) ==
    IF mid = 0 THEN Str(<<>>)
    ELSE IF cs = <<>> \/ len_utf8(Head(cs)) > mid THEN Panic
    ELSE Let(split_at(Tail(cs), mid - len_utf8(Head(cs))), LAMBDA rest :
             IF IsPanic(rest) THEN Panic ELSE Str(<<Head(cs)>> \o rest.str))

\* str::trim_start, str::trim_end and str::trim
RECURSIVE TrimStart(_)
TrimStart(cs) ==
    Let(cs, LAMBDA s :
        IF s # <<>> /\ is_whitespace(Head(s)) THEN TrimStart(Tail(s)) ELSE s)
RECURSIVE TrimEnd(_)
TrimEnd(cs) ==
    Let(cs, LAMBDA s :
        IF s # <<>> /\ is_whitespace(Last(s)) THEN TrimEnd(Front(s)) ELSE s)
Trim(cs) == TrimEnd(TrimStart(cs))

\* the index of the first c in cs at or after i, 0 when there is none
RECURSIVE FindFrom(_, _, _)
FindFrom(cs, c, i) ==
    IF i > Len(cs) THEN 0 ELSE IF cs[i] = c THEN i ELSE FindFrom(cs, c, i + 1)

\* str2int(bytes): v = v * 10 + digit in an i64 over the bytes in order, a
\* non-digit is a ParseError; str2intR is the loop after its first n rounds
RECURSIVE str2intR(_, _)
str2intR(bytes, n) ==
    IF n = 0 THEN Ok(I(0))
    ELSE Let(str2intR(bytes, n - 1), LAMBDA acc :
             IF ~IsOk(acc) THEN acc
             ELSE IF ~IsDigit(bytes[n]) THEN ParseErr("non-numerical literal")
             ELSE Let(PlusI(I64, Arith(I64, WMulI(acc.ok, 10)), DigitOf(bytes[n])),
                      LAMBDA v : IF IsPanic(v) THEN Panic ELSE Ok(v)))

str2int(bytes) == Let(bytes, LAMBDA bs : str2intR(bs, Len(bs)))

\* Myth64::MM.as_i64()
MM == 10000

\* try_from_str(value): (str2int(base)? * MM + str2int(fraction)?) * sign;
\* the fraction is cut at its fourth byte before either part is read
try_from_str(value) ==
    Let(FindFrom(value, ".", 1), LAMBDA dot :
    Let(IF dot = 0 THEN value ELSE SubSeq(value, 1, dot - 1), LAMBDA base0 :
    Let(IF dot = 0 THEN <<"0">> ELSE SubSeq(value, dot + 1, Len(value)), LAMBDA frac0 :
    IF base0 = <<>> THEN ParseErr("empty string")
    ELSE LET c == Head(base0)
             sign == IF c = "-" THEN -1 ELSE 1
             base == IF c = "-" \/ c = "+" THEN Tail(base0) ELSE base0
         IN IF base = <<>> THEN ParseErr("empty string")
            ELSE Let(split_at(frac0 \o Zeros(5), 4), LAMBDA fraction :
                 IF IsPanic(fraction) THEN Panic
                 ELSE Let(str2int(base), LAMBDA b :
                 IF ~IsOk(b) THEN b
                 ELSE Let(Arith(I64, WMulI(b.ok, MM)), LAMBDA scaled :
                      IF IsPanic(scaled) THEN Panic
                      ELSE Let(str2int(fraction.str), LAMBDA f :
                           IF ~IsOk(f) THEN f
                           ELSE Let(Arith(I64, WAdd(scaled, f.ok)), LAMBDA sum :
                                IF IsPanic(sum) THEN Panic
                                ELSE Let(Arith(I64, WMulI(sum, sign)), LAMBDA r :
                                     IF IsPanic(r) THEN Panic ELSE Ok(r))))))))))

\* a from_str that hands the text on as it came, whitespace included
myth_from_str_untrimmed(w, value) ==
    Let(try_from_str(value), LAMBDA i :
        IF ~IsOk(i) THEN i ELSE TryFromInt(w, i.ok))

\* FromStr for $Self: try_from_str(value.trim()), then Self::try_from(i)
\* with its error mapped to Overflow
myth_from_str(w, value) ==
    Let(try_from_str(Trim(value)), LAMBDA i :
        IF ~IsOk(i) THEN i ELSE TryFromInt(w, i.ok))

----------------------------------------------------------------------------
(* The Tolerance types: T64 {Myth32, Myth16, Myth16} and                   *)
(* T128 {Myth64, Myth32, Myth32}.                                          *)

TolTypes == {"T64", "T128"}
ValW(t) == IF t = "T64" THEN I32 ELSE I64
DevW(t) == IF t = "T64" THEN I16 ELSE I32

\* a struct literal $Self { value, plus, minus }: a field whose expression
\* panicked leaves no struct
MkTol(t, v, p, m) ==
    IF IsPanic(v) \/ IsPanic(p) \/ IsPanic(m) THEN Panic
    ELSE [ty |-> t, value |-> v, plus |-> p, minus |-> m]

IsTol(r) == "plus" \in DOMAIN r

ZERO(t) == MkTol(t, I(0), I(0), I(0))

new(t, value, plus, minus) ==
    IF WGe(plus, minus) THEN MkTol(t, value, plus, minus) ELSE Panic

with_sym(t, value, tol) ==
    LET n == MythNeg(DevW(t), tol)
    IN IF IsPanic(n) THEN Panic ELSE new(t, value, tol, n)

narrow(self, plus, minus) == new(self.ty, self.value, plus, minus)

narrow_sym(self, tol) ==
    LET n == MythNeg(DevW(self.ty), tol)
    IN IF IsPanic(n) THEN Panic ELSE new(self.ty, self.value, tol, n)

\* upper_limit(&self): self.value + self.plus, a $value
upper_limit(self) == MythAdd(ValW(self.ty), self.value, self.plus)

\* lower_limit(&self): self.value + self.minus
lower_limit(self) == MythAdd(ValW(self.ty), self.value, self.minus)

\* is_inside_of(&self, other): the lower limits are compared first, the
\* upper limits only when that comparison held (&&); the result is a bool,
\* or Panic when a limit that was computed panicked
is_inside_of(self, other) ==
    Let(<<lower_limit(self), lower_limit(other)>>, LAMBDA lower :
        IF IsPanic(lower[1]) \/ IsPanic(lower[2]) THEN Panic
        ELSE IF ~WGe(lower[1], lower[2]) THEN [bool |-> FALSE]
        ELSE Let(<<upper_limit(self), upper_limit(other)>>, LAMBDA upper :
                 IF IsPanic(upper[1]) \/ IsPanic(upper[2]) THEN Panic
                 ELSE [bool |-> WLe(upper[1], upper[2])]))

invert(self) ==
    MkTol(self.ty,
          MythNeg(ValW(self.ty), self.value),
          MythNeg(DevW(self.ty), self.minus),
          MythNeg(DevW(self.ty), self.plus))

not(self) == invert(self)

add(self, other) ==
    MkTol(self.ty,
          MythAdd(ValW(self.ty), self.value, other.value),
          MythAdd(DevW(self.ty), self.plus, other.plus),
          MythAdd(DevW(self.ty), self.minus, other.minus))

\* a subtraction that does not cross the deviations
sub_uncrossed(self, other) ==
    MkTol(self.ty,
          MythSub(ValW(self.ty), self.value, other.value),
          MythSub(DevW(self.ty), self.plus, other.plus),
          MythSub(DevW(self.ty), self.minus, other.minus))

sub(self, other) ==
    MkTol(self.ty,
          MythSub(ValW(self.ty), self.value, other.value),
          MythSub(DevW(self.ty), self.plus, other.minus),
          MythSub(DevW(self.ty), self.minus, other.plus))

\* the derived Ord of a Myth compares the tick counts
Ordering(c) == IF c < 0 THEN "Less" ELSE IF c > 0 THEN "Greater" ELSE "Equal"
MythCmp(a, b) == Ordering(WCmp(a, b))

\* an ordering that looks at plus before minus
cmp_plus_first(self, other) ==
    LET byValue == MythCmp(self.value, other.value)
        byPlus == MythCmp(self.plus, other.plus)
    IN IF byValue = "Equal"
       THEN (IF byPlus = "Equal" THEN MythCmp(self.minus, other.minus) ELSE byPlus)
       ELSE byValue

cmp(self, other) ==
    LET byValue == MythCmp(self.value, other.value)
        byMinus == MythCmp(self.minus, other.minus)
    IN IF byValue = "Equal"
       THEN (IF byMinus = "Equal" THEN MythCmp(self.plus, other.plus) ELSE byMinus)
       ELSE byValue

partial_cmp(self, other) == [some |-> cmp(self, other)]

\* write!(f, ..): the pieces in order; a piece that panicked ends it
RECURSIVE Cat(_)
Cat(pieces) ==
    Let(pieces, LAMBDA ps :
        IF ps = <<>> THEN Str(<<>>)
        ELSE IF IsPanic(Head(ps)) THEN Panic
        ELSE Let(Cat(Tail(ps)), LAMBDA rest :
                 IF IsPanic(rest) THEN Panic ELSE Str(Head(ps).str \o rest.str)))

\* a Display that prints the deviations with the precision of the value
TolDisplay_same_precision(self, precision, alternate) ==
    LET w == DevW(self.ty)
        vw == ValW(self.ty)
        v == IF IsSome(precision) THEN precision.some ELSE 2
        t == IF IsSome(precision) THEN precision.some ELSE 3
        tol_round == potency(4 - Min(t, 4))
        value == self.value
    IN
    Let(round(w, self.plus, tol_round), LAMBDA plus :
    Let(round(w, self.minus, tol_round), LAMBDA minus :
    IF IsPanic(plus) \/ IsPanic(minus) THEN Panic
    ELSE Let(MythNeg(w, minus), LAMBDA negminus :
         IF IsPanic(negminus) THEN Panic
         ELSE IF plus = negminus /\ ~alternate /\ ~plus.neg
         THEN IF IsSome(precision)
              THEN Cat(<<MythDisplay(vw, value, Some(v), FALSE, FALSE),
                         Str(<<" ", "+", "/", "-">>),
                         MythDisplay(w, plus, Some(t), FALSE, FALSE)>>)
              ELSE Cat(<<MythDisplay(vw, value, None, FALSE, FALSE),
                         Str(<<" ", "+", "/", "-">>),
                         MythDisplay(w, plus, None, FALSE, FALSE)>>)
         ELSE LET m == IF minus.dig # <<>> /\ ~minus.neg THEN Str(<<"+">>)
                       ELSE IF minus.dig = <<>> THEN Str(<<"-">>)
                       ELSE Str(<<>>)
              IN IF alternate
                 THEN Cat(<<MythDisplay(vw, value, Some(v), FALSE, TRUE),
                            Str(<<" ">>),
                            MythDisplay(w, plus, Some(t), TRUE, TRUE),
                            Str(<<"/">>), m,
                            MythDisplay(w, minus, Some(t), FALSE, TRUE)>>)
                 ELSE IF IsSome(precision)
                 THEN Cat(<<MythDisplay(vw, value, Some(v), FALSE, FALSE),
                            Str(<<" ">>),
                            MythDisplay(w, plus, Some(t), TRUE, FALSE),
                            Str(<<"/">>), m,
                            MythDisplay(w, minus, Some(t), FALSE, FALSE)>>)
                 ELSE Cat(<<MythDisplay(vw, value, None, FALSE, FALSE),
                            Str(<<" ">>),
                            MythDisplay(w, plus, None, TRUE, FALSE),
                            Str(<<"/">>), m,
                            MythDisplay(w, minus, None, FALSE, FALSE)>>))))

\* Display for $Self with the formatter's precision (None or Some(p)) and
\* its # flag
\* Display deciding the compact form on the stored plus and minus
TolDisplay_stored_symmetry(self, precision, alternate) ==
    LET w == DevW(self.ty)
        vw == ValW(self.ty)
        v == IF IsSome(precision) THEN precision.some ELSE 2
        t == IF IsSome(precision) THEN precision.some + 1 ELSE 3
        tol_round == potency(4 - Min(t, 4))
        value == self.value
    IN
    Let(round(w, self.plus, tol_round), LAMBDA plus :
    Let(round(w, self.minus, tol_round), LAMBDA minus :
    IF IsPanic(plus) \/ IsPanic(minus) THEN Panic
    ELSE Let(MythNeg(w, self.minus), LAMBDA negminus :
         IF IsPanic(negminus) THEN Panic
         ELSE IF self.plus = negminus /\ ~alternate /\ ~self.plus.neg
         THEN Cat(<<MythDisplay(vw, value, IF IsSome(precision) THEN Some(v) ELSE None,
                                FALSE, FALSE),
                    Str(<<" ", "+", "/", "-">>),
                    MythDisplay(w, plus, IF IsSome(precision) THEN Some(t) ELSE None,
                                FALSE, FALSE)>>)
         ELSE LET m == IF minus.dig # <<>> /\ ~minus.neg THEN Str(<<"+">>)
                       ELSE IF minus.dig = <<>> THEN Str(<<"-">>)
                       ELSE Str(<<>>)
              IN Cat(<<MythDisplay(vw, value,
                                   IF IsSome(precision) \/ alternate THEN Some(v) ELSE None,
                                   FALSE, alternate),
                       Str(<<" ">>),
                       MythDisplay(w, plus,
                                   IF IsSome(precision) \/ alternate THEN Some(t) ELSE None,
                                   TRUE, alternate),
                       Str(<<"/">>), m,
                       MythDisplay(w, minus,
                                   IF IsSome(precision) \/ alternate THEN Some(t) ELSE None,
                                   FALSE, alternate)>>))))

TolDisplay(self, precision, alternate) ==
    LET w == DevW(self.ty)
        vw == ValW(self.ty)
        v == IF IsSome(precision) THEN precision.some ELSE 2
        t == IF IsSome(precision) THEN precision.some + 1 ELSE 3
        tol_round == potency(4 - Min(t, 4))
        value == self.value
    IN
    Let(round(w, self.plus, tol_round), LAMBDA plus :
    Let(round(w, self.minus, tol_round), LAMBDA minus :
    IF IsPanic(plus) \/ IsPanic(minus) THEN Panic
    ELSE Let(MythNeg(w, minus), LAMBDA negminus :
         IF IsPanic(negminus) THEN Panic
         ELSE IF plus = negminus /\ ~alternate /\ ~plus.neg
         THEN IF IsSome(precision)
              THEN Cat(<<MythDisplay(vw, value, Some(v), FALSE, FALSE),
                         Str(<<" ", "+", "/", "-">>),
                         MythDisplay(w, plus, Some(t), FALSE, FALSE)>>)
              ELSE Cat(<<MythDisplay(vw, value, None, FALSE, FALSE),
                         Str(<<" ", "+", "/", "-">>),
                         MythDisplay(w, plus, None, FALSE, FALSE)>>)
         ELSE LET m == IF minus.dig # <<>> /\ ~minus.neg THEN Str(<<"+">>)
                       ELSE IF minus.dig = <<>> THEN Str(<<"-">>)
                       ELSE Str(<<>>)
              IN IF alternate
                 THEN Cat(<<MythDisplay(vw, value, Some(v), FALSE, TRUE),
                            Str(<<" ">>),
                            MythDisplay(w, plus, Some(t), TRUE, TRUE),
                            Str(<<"/">>), m,
                            MythDisplay(w, minus, Some(t), FALSE, TRUE)>>)
                 ELSE IF IsSome(precision)
                 THEN Cat(<<MythDisplay(vw, value, Some(v), FALSE, FALSE),
                            Str(<<" ">>),
                            MythDisplay(w, plus, Some(t), TRUE, FALSE),
                            Str(<<"/">>), m,
                            MythDisplay(w, minus, Some(t), FALSE, FALSE)>>)
                 ELSE Cat(<<MythDisplay(vw, value, None, FALSE, FALSE),
                            Str(<<" ">>),
                            MythDisplay(w, plus, None, TRUE, FALSE),
                            Str(<<"/">>), m,
                            MythDisplay(w, minus, None, FALSE, FALSE)>>))))

\* TryFrom<(Option<V>, Option<P>, Option<M>)> for $Self with i64 members:
\* the struct is written down from the converted members
try_from_triple(t, v, p, m) ==
    IF IsSome(v) /\ IsSome(p) /\ IsSome(m) THEN
        LET value == TryFromInt(ValW(t), v.some)
            plus == TryFromInt(DevW(t), p.some)
            minus == TryFromInt(DevW(t), m.some)
        IN IF IsErr(value) THEN value
           ELSE IF IsErr(plus) THEN plus
           ELSE IF IsErr(minus) THEN minus
           ELSE Ok(MkTol(t, value.ok, plus.ok, minus.ok))
    ELSE IF IsSome(v) /\ IsSome(p) /\ ~IsSome(m) THEN
        LET plus == TryFromInt(DevW(t), p.some)
            value == TryFromInt(ValW(t), v.some)
        IN IF IsErr(plus) THEN plus
           ELSE IF IsErr(value) THEN value
           ELSE LET s == MkTol(t, value.ok, plus.ok, MythNeg(DevW(t), plus.ok))
                IN IF IsPanic(s) THEN Panic ELSE Ok(s)
    ELSE IF IsSome(v) /\ ~IsSome(p) /\ ~IsSome(m) THEN
        LET value == TryFromInt(ValW(t), v.some)
        IN IF IsErr(value) THEN value ELSE Ok(MkTol(t, value.ok, I(0), I(0)))
    ELSE ParseErr("not parsable")

\* TryFrom<(Option<&i64>, Option<&i64>, Option<&i64>)> for $Self: the same
\* match, written out for references
try_from_refs(t, v, p, m) == try_from_triple(t, v, p, m)

\* iter.next() on the i-th call
Next_(items, i) == IF i <= Len(items) THEN Some(items[i]) ELSE None

\* TryFrom<&[i64]> for $Self
try_from_slice(t, value) ==
    try_from_refs(t, Next_(value, 1), Next_(value, 2), Next_(value, 3))

\* str::replace(pat, to)
RECURSIVE Replace(_, _, _)
Replace(cs, pat, to) ==
    Let(cs, LAMBDA s :
        IF Len(s) < Len(pat) THEN s
        ELSE IF SubSeq(s, 1, Len(pat)) = pat
        THEN to \o Replace(SubSeq(s, Len(pat) + 1, Len(s)), pat, to)
        ELSE <<Head(s)>> \o Replace(Tail(s), pat, to))

\* str::split_whitespace
RECURSIVE SplitR(_, _, _)
SplitR(cs, cur, acc) ==
    Let(<<cs, cur, acc>>, LAMBDA v :
        IF v[1] = <<>> THEN (IF v[2] = <<>> THEN v[3] ELSE Append(v[3], v[2]))
        ELSE IF is_whitespace(Head(v[1]))
        THEN SplitR(Tail(v[1]), <<>>, IF v[2] = <<>> THEN v[3] ELSE Append(v[3], v[2]))
        ELSE SplitR(Tail(v[1]), Append(v[2], Head(v[1])), v[3]))

split_whitespace(cs) == SplitR(cs, <<>>, <<>>)

\* FromStr for $Self
tol_from_str(t, text) ==
    Let(Replace(Replace(Replace(Replace(text, <<"+", "/", "-">>, <<" ">>),
                                <<"+", "-">>, <<" ">>),
                        <<"/">>, <<" ">>),
                <<";">>, <<" ">>), LAMBDA s :
    Let(split_whitespace(s), LAMBDA tokens :
    Let([i \in 1..Len(tokens) |-> try_from_str(tokens[i])], LAMBDA parts :
        IF \E i \in 1..Len(parts) : IsPanic(parts[i]) THEN Panic
        ELSE IF \E i \in 1..Len(parts) : IsErr(parts[i]) THEN ParseErr("not parsable")
        ELSE IF tokens = <<>> THEN ParseErr("empty string")
        ELSE Let([i \in 1..Len(parts) |-> parts[i].ok], LAMBDA unwrapped :
                 try_from_triple(t, Next_(unwrapped, 1), Next_(unwrapped, 2),
                                 Next_(unwrapped, 3))))))

----------------------------------------------------------------------------
(* Further operators of the Tolerance types: unary minus, the product with *)
(* a primitive integer, the compound assignments and the operators that    *)
(* take one Myth.  A compound assignment is modelled by the value the      *)
(* variable holds afterwards.                                              *)

\* Mul<$Target> for $Self (a Myth): Self(self.0 * (other as $typ))
myth_mul(w, x, other) == Arith(w, WMulI(x, ToInt(Wrap(w, I(other)))))

\* Mul<$typ> for $Self: a struct literal of the three products
mul(self, rsh) ==
    MkTol(self.ty,
          myth_mul(ValW(self.ty), self.value, rsh),
          myth_mul(DevW(self.ty), self.plus, rsh),
          myth_mul(DevW(self.ty), self.minus, rsh))

\* Neg for $Self: Self::new(-self.value, -self.plus, -self.minus)
neg(self) ==
    Let(<<MythNeg(ValW(self.ty), self.value),
          MythNeg(DevW(self.ty), self.plus),
          MythNeg(DevW(self.ty), self.minus)>>, LAMBDA n :
        IF IsPanic(n[1]) \/ IsPanic(n[2]) \/ IsPanic(n[3]) THEN Panic
        ELSE new(self.ty, n[1], n[2], n[3]))

\* AddAssign for $Self: the three fields with +=
add_assign(self, other) ==
    MkTol(self.ty,
          Arith(ValW(self.ty), WAdd(self.value, other.value)),
          Arith(DevW(self.ty), WAdd(self.plus, other.plus)),
          Arith(DevW(self.ty), WAdd(self.minus, other.minus)))

\* SubAssign for $Self: the three fields with -=
sub_assign(self, other) ==
    MkTol(self.ty,
          Arith(ValW(self.ty), WSub(self.value, other.value)),
          Arith(DevW(self.ty), WSub(self.plus, other.plus)),
          Arith(DevW(self.ty), WSub(self.minus, other.minus)))

\* Add<$value> for $Self and Add<$tol> for $Self
add_value(self, other) ==
    MkTol(self.ty, MythAdd(ValW(self.ty), self.value, other), self.plus, self.minus)
add_tol(self, other) ==
    MkTol(self.ty, MythAdd(ValW(self.ty), self.value, other), self.plus, self.minus)

\* Sub<$value> for $Self and Sub<$tol> for $Self
sub_value(self, other) ==
    MkTol(self.ty, MythSub(ValW(self.ty), self.value, other), self.plus, self.minus)
sub_tol(self, other) ==
    MkTol(self.ty, MythSub(ValW(self.ty), self.value, other), self.plus, self.minus)

\* AddAssign<$value>: self.value += other; AddAssign<$tol>: self.value +=
\* $value::from(other)
add_assign_value(self, other) ==
    MkTol(self.ty, Arith(ValW(self.ty), WAdd(self.value, other)), self.plus, self.minus)
add_assign_tol(self, other) ==
    MkTol(self.ty, Arith(ValW(self.ty), WAdd(self.value, other)), self.plus, self.minus)

\* SubAssign<$tol> with every field moved
sub_assign_tol_all(self, other) ==
    MkTol(self.ty,
          Arith(ValW(self.ty), WSub(self.value, other)),
          Arith(DevW(self.ty), WSub(self.plus, other)),
          Arith(DevW(self.ty), WSub(self.minus, other)))

\* SubAssign<$value> and SubAssign<$tol>
sub_assign_value(self, other) ==
    MkTol(self.ty, Arith(ValW(self.ty), WSub(self.value, other)), self.plus, self.minus)
sub_assign_tol(self, other) ==
    MkTol(self.ty, Arith(ValW(self.ty), WSub(self.value, other)), self.plus, self.minus)

----------------------------------------------------------------------------
(* The byte form.  A byte array is a record [bytes |-> <<b1, .., bn>>] of   *)
(* naturals below 256; the native byte order is the one of the build's     *)
(* target, "be" or "le".                                                   *)

Bytes(bs) == [bytes |-> bs]
IsBytes(r) == "bytes" \in DOMAIN r
ByteOrders == {"be", "le"}

Reverse(s) == [i \in 1..Len(s) |-> s[Len(s) + 1 - i]]

\* std::mem::size_of::<$typ>()
size_of(w) == w \div 8

\* the n low bytes of the natural d, most significant first
RECURSIVE BeBytes(_, _)
BeBytes(d, n) ==
    IF n = 0 THEN <<>>
    ELSE Let(NDivMod(d, 256), LAMBDA qr : Append(BeBytes(qr.q, n - 1), qr.r))

\* the natural that the first n of the bytes denote, most significant first
RECURSIVE BeValue(_, _)
BeValue(bytes, n) ==
    IF n = 0 THEN <<>>
    ELSE NAdd(NMul(BeValue(bytes, n - 1), 256), NDigits(bytes[n]))

\* $typ::to_be_bytes, $typ::to_le_bytes: the two's complement of x
myth_to_be_bytes(w, x) ==
    BeBytes((IF x.neg THEN WAdd(x, Modulus(w)) ELSE x).dig, size_of(w))
myth_to_le_bytes(w, x) == Reverse(myth_to_be_bytes(w, x))
myth_to_ne_bytes(w, x, target_endian) ==
    IF target_endian = "be" THEN myth_to_be_bytes(w, x) ELSE myth_to_le_bytes(w, x)

\* $typ::from_be_bytes, $typ::from_le_bytes
myth_from_be_bytes(w, bytes) ==
    Let(W(FALSE, BeValue(bytes, Len(bytes))), LAMBDA u :
        IF WGt(u, MaxOf(w)) THEN WSub(u, Modulus(w)) ELSE u)
myth_from_le_bytes(w, bytes) == myth_from_be_bytes(w, Reverse(bytes))
myth_from_ne_bytes(w, bytes, target_endian) ==
    IF target_endian = "be" THEN myth_from_be_bytes(w, bytes)
    ELSE myth_from_le_bytes(w, bytes)

\* where plus and minus start in the byte form, and its length: the
\* fields' sizes rounded up to the alignment of the value
PPOS(t) == size_of(ValW(t))
MPOS(t) == size_of(ValW(t)) + size_of(DevW(t))
size_of_Self(t) ==
    ((MPOS(t) + size_of(DevW(t)) + size_of(ValW(t)) - 1) \div size_of(ValW(t)))
        * size_of(ValW(t))

\* buffer[from..to].clone_from_slice(src): the range is taken from the
\* buffer first, which panics when it leaves it, and the copy panics unless
\* the lengths agree
clone_from_slice(buffer, from, to, src) ==
    IF IsPanic(buffer) THEN Panic
    ELSE IF from > to \/ to > Len(buffer.bytes) THEN Panic
    ELSE IF to - from # Len(src) THEN Panic
    ELSE Bytes([i \in 1..Len(buffer.bytes) |->
                   IF i > from /\ i <= to THEN src[i - from] ELSE buffer.bytes[i]])

\* to_be_bytes, to_le_bytes and to_ne_bytes with the fields in another order
to_bytes_minus_first(self, order) ==
    LET conv(w, x) == IF order = "be" THEN myth_to_be_bytes(w, x)
                      ELSE myth_to_le_bytes(w, x)
        size == size_of_Self(self.ty)
    IN clone_from_slice(
         clone_from_slice(
           clone_from_slice(Bytes([i \in 1..size |-> 0]),
                            0, PPOS(self.ty), conv(ValW(self.ty), self.value)),
           PPOS(self.ty), MPOS(self.ty), conv(DevW(self.ty), self.minus)),
         MPOS(self.ty), size, conv(DevW(self.ty), self.plus))

\* to_be_bytes, to_le_bytes and to_ne_bytes; order is the byte order in use
to_bytes(self, order) ==
    LET conv(w, x) == IF order = "be" THEN myth_to_be_bytes(w, x)
                      ELSE myth_to_le_bytes(w, x)
        size == size_of_Self(self.ty)
    IN clone_from_slice(
         clone_from_slice(
           clone_from_slice(Bytes([i \in 1..size |-> 0]),
                            0, PPOS(self.ty), conv(ValW(self.ty), self.value)),
           PPOS(self.ty), MPOS(self.ty), conv(DevW(self.ty), self.plus)),
         MPOS(self.ty), size, conv(DevW(self.ty), self.minus))

to_be_bytes(self) == to_bytes(self, "be")
to_le_bytes(self) == to_bytes(self, "le")
to_ne_bytes(self, target_endian) == to_bytes(self, target_endian)

\* from_be_bytes, from_le_bytes and from_ne_bytes: the struct is filled
\* from the three slices, without new's assert
from_bytes(t, bytes, order) ==
    LET conv(w, bs) == IF order = "be" THEN myth_from_be_bytes(w, bs)
                       ELSE myth_from_le_bytes(w, bs)
    IN IF Len(bytes) # size_of_Self(t) THEN Panic
       ELSE [ty |-> t,
             value |-> conv(ValW(t), SubSeq(bytes, 1, PPOS(t))),
             plus |-> conv(DevW(t), SubSeq(bytes, PPOS(t) + 1, MPOS(t))),
             minus |-> conv(DevW(t), SubSeq(bytes, MPOS(t) + 1, Len(bytes)))]

from_be_bytes(t, bytes) == from_bytes(t, bytes, "be")
from_le_bytes(t, bytes) == from_bytes(t, bytes, "le")
from_ne_bytes(t, bytes, target_endian) == from_bytes(t, bytes, target_endian)

----------------------------------------------------------------------------
(* Floats.  An f64 of millimetres is modelled by the integer q of its      *)
(* thirty-seconds, [f64 |-> q] for q / 32 mm; q / 32 is a value of f64     *)
(* exactly when q has at most 53 significant bits, and only such q are     *)
(* floats.  NaN and the infinities are not modelled.                       *)

F64(q) == [f64 |-> q]

\* 2^53: an f64 holds 53 significant bits (f64::MANTISSA_DIGITS)
TwoPow53 == <<9,0,0,7,1,9,9,2,5,4,7,4,0,9,9,2>>

\* d * 2^k
RECURSIVE ShiftLeft(_, _)
ShiftLeft(d, k) ==
    IF k <= 24 THEN NMul(d, 2^k)
    ELSE Let(NMul(d, 2^24), LAMBDA e : ShiftLeft(e, k - 24))

\* d, of which k bits were shifted out already (sticky: one of them was
\* set), brought to 53 bits: the nearest, the even one of two nearest
RECURSIVE RoundShift(_, _, _)
RoundShift(d, k, sticky) ==
    Let(NDivMod(d, 2^24), LAMBDA far :
        IF NCmp(d, TwoPow53) < 0 THEN ShiftLeft(d, k)
        ELSE IF NCmp(far.q, TwoPow53) >= 0
        THEN RoundShift(far.q, k + 24, sticky \/ far.r # 0)
        ELSE Let(CHOOSE s \in 1..24 :
                     /\ NCmp(NDivMod(d, 2^s).q, TwoPow53) < 0
                     /\ NCmp(NDivMod(d, 2^(s - 1)).q, TwoPow53) >= 0,
                 LAMBDA s :
             Let(NDivMod(d, 2^s), LAMBDA h :
                 LET half == 2^(s - 1)
                     up == \/ h.r > half
                           \/ /\ h.r = half
                              /\ (sticky \/ Last(h.q) % 2 = 1)
                 IN ShiftLeft(IF up THEN NAdd(h.q, <<1>>) ELSE h.q, k + s))))

\* the f64 that an operator of f64 returns for the exact result x (in any
\* unit that is a power of two): x rounded to 53 significant bits
round_f64(x) == W(x.neg, RoundShift(x.dig, 0, FALSE))

\* f * 10_000.0 in halves: q / 32 * 10000 is q * 625 halves, rounded
mul_10000(f) == round_f64(WMulI(f.f64, 625))

\* `$typ::MAX as f64` and `$typ::MIN as f64`, in thirty-seconds: i64::MAX
\* is not a value of f64 and is rounded to 2^63
MaxAsF64(w) ==
    WMulI(IF w = I64 THEN WAdd(MaxOf(w), I(1)) ELSE MaxOf(w), 32)
MinAsF64(w) == WMulI(MinOf(w), 32)

\* `x as $typ` for a float x given in halves: the fraction is cut off and a
\* value beyond the range becomes the end of the range
as_saturating(w, halves) ==
    Let(WDivI(halves, 2), LAMBDA x :
        IF WGt(x, MaxOf(w)) THEN MaxOf(w)
        ELSE IF WLt(x, MinOf(w)) THEN MinOf(w)
        ELSE x)

\* From<f64> for $Self
from_f64(w, f) ==
    IF ~(WLt(f.f64, MaxAsF64(w)) /\ WGt(f.f64, MinAsF64(w)))
    THEN Panic
    ELSE as_saturating(w, mul_10000(f))

----------------------------------------------------------------------------
(* A caller composing Tolerances: it builds them with new / with_sym,      *)
(* keeps two of them (ta, tb) and applies narrow, narrow_sym, invert, !,   *)
(* +, - and the comparisons.  A panic ends the run.                        *)

MaxSteps == 3

\* tick counts a caller passes in: the ends of the range and the values of
\* the crate's own tests
ValSamples(t) == {MinOf(ValW(t)), I(300), I(1000), MaxOf(ValW(t))}
DevSamples(t) == {MinOf(DevW(t)), I(-10), I(0), I(20), MaxOf(DevW(t))}

\* the (value, plus, minus) triples the caller of the sequences builds from
NewSamples(t) ==
    { <<I(1000), I(0), I(0)>>, <<I(300), I(20), I(-10)>>,
      <<I(300), I(20), I(0)>>, <<I(1000), I(-10), I(-10)>>,
      <<MaxOf(ValW(t)), MaxOf(DevW(t)), I(0)>>,
      <<MinOf(ValW(t)), I(0), MinOf(DevW(t))>>,
      <<I(300), MaxOf(DevW(t)), MinOf(DevW(t))>>,
      <<I(300), I(-10), I(20)>>,
      <<I(1000), MinOf(DevW(t)), MaxOf(DevW(t))>> }
SymSamples(t) ==
    { <<I(1000), I(20)>>, <<I(300), I(0)>>, <<I(300), I(-10)>>,
      <<I(1000), MaxOf(DevW(t))>>, <<I(300), MinOf(DevW(t))>> }
NarrowSamples(t) == {<<s[2], s[3]>> : s \in NewSamples(t)}

\* an operation on the inputs a returned r: a Tolerance replaces ta,
\* anything else leaves it
Returned(o, a, r) ==
    /\ op' = o
    /\ arg' = a
    /\ res' = r
    /\ ta' = IF IsTol(r) THEN r ELSE ta
    /\ steps' = steps + 1
    /\ UNCHANGED <<overflow_checks, ty, tb>>

Running == ~IsPanic(res) /\ steps < MaxSteps

DoNew ==
    /\ Running
    /\ \E s \in NewSamples(ty) : Returned("new", s, new(ty, s[1], s[2], s[3]))

DoWithSym ==
    /\ Running
    /\ \E s \in SymSamples(ty) : Returned("with_sym", s, with_sym(ty, s[1], s[2]))

DoNarrow ==
    /\ Running
    /\ \E s \in NarrowSamples(ty) :
          Returned("narrow", <<ta, s[1], s[2]>>, narrow(ta, s[1], s[2]))

DoNarrowSym ==
    /\ Running
    /\ \E s \in SymSamples(ty) :
          Returned("narrow_sym", <<ta, s[2]>>, narrow_sym(ta, s[2]))

DoInvert == Running /\ Returned("invert", <<ta>>, invert(ta))

DoNot == Running /\ Returned("not", <<ta>>, not(ta))

DoAdd == Running /\ Returned("add", <<ta, tb>>, add(ta, tb))

DoSub == Running /\ Returned("sub", <<ta, tb>>, sub(ta, tb))

\* let tb = ta
DoLet ==
    /\ Running
    /\ tb # ta
    /\ tb' = ta
    /\ op' = "let"
    /\ arg' = <<ta>>
    /\ res' = ta
    /\ steps' = steps + 1
    /\ UNCHANGED <<overflow_checks, ty, ta>>

DoIsInsideOf == Running /\ Returned("is_inside_of", <<ta, tb>>, is_inside_of(ta, tb))

\* ta + ta.invert(): the inversion is computed first
DoAddInverted ==
    /\ Running
    /\ Returned("add_inverted", <<ta>>,
                Let(invert(ta), LAMBDA inverted :
                    IF IsPanic(inverted) THEN Panic ELSE add(ta, inverted)))

DoCmp == Running /\ Returned("cmp", <<ta, tb>>, [ordering |-> cmp(ta, tb)])

DoPartialCmp == Running /\ Returned("partial_cmp", <<ta, tb>>, partial_cmp(ta, tb))

TolInit ==
    /\ overflow_checks \in BOOLEAN
    /\ ty \in TolTypes
    /\ ta = ZERO(ty)
    /\ tb = ZERO(ty)
    /\ steps = 0
    /\ op = "init"
    /\ arg = <<>>
    /\ res = ZERO(ty)

TolNext ==
    \/ DoNew \/ DoWithSym \/ DoNarrow \/ DoNarrowSym
    \/ DoInvert \/ DoNot \/ DoAdd \/ DoSub \/ DoLet

SpecTol == TolInit /\ [][TolNext]_vars

----------------------------------------------------------------------------
(* One operator applied to Tolerances that were built with new: the        *)
(* caller holds ta and tb and applies one of the operators to them.        *)

Built(t) ==
    {new(t, v, p, m) : v \in ValSamples(t), p \in DevSamples(t), m \in DevSamples(t)}
        \ {Panic}

OpsInit ==
    /\ overflow_checks \in BOOLEAN
    /\ ty \in TolTypes
    /\ ta \in Built(ty)
    /\ tb \in Built(ty)
    /\ steps = 0
    /\ op = "init"
    /\ arg = <<>>
    /\ res = ta

OnceInvert == op = "init" /\ DoInvert
OnceNot == op = "init" /\ DoNot
OnceAdd == op = "init" /\ DoAdd
OnceSub == op = "init" /\ DoSub
OnceIsInsideOf == op = "init" /\ DoIsInsideOf
OnceAddInverted == op = "init" /\ DoAddInverted
OnceCmp == op = "init" /\ DoCmp
OncePartialCmp == op = "init" /\ DoPartialCmp

OpsNext ==
    \/ OnceInvert \/ OnceNot \/ OnceAdd \/ OnceSub \/ OnceCmp \/ OncePartialCmp
    \/ OnceIsInsideOf \/ OnceAddInverted

SpecOps == OpsInit /\ [][OpsNext]_vars

----------------------------------------------------------------------------
(* One operation on a Myth: the caller holds a Myth of type ty in ta and   *)
(* narrows it, rounds it, floors it, or formats it and parses the text.    *)

\* Unit::MY, Unit::CM and Unit::INCH (Unit::MM is MM)
MY == 10
CM == 10 * MM
INCH == 25400 * MY

\* the multipliers of the units handed to round and floor
UnitSamples == {0, 1, UnitMul(potency(0), 3), 7, MY, 100, 1000, MM, CM, INCH}

\* the largest precision a caller writes into a format string
MaxPrecision == 5
Precisions == {None} \cup {Some(p) : p \in 0..MaxPrecision}

MythSamples(t) ==
    {I(n) : n \in {-20000, -5000, -67, -5, -2, -1, 0, 1, 2, 5, 15, 100, 4567, 5567,
                    12455}}
    \cup {MinOf(WidthOf(t)), MaxOf(WidthOf(t))}
    \cup (IF WidthOf(t) > I16
          THEN {I(70000), I(-70000), I(1234567), I(9999000),
                WAdd(MaxOf(I16), I(1)), WSub(MinOf(I16), I(1))}
          ELSE {})
    \cup (IF WidthOf(t) > I32
          THEN {WAdd(MaxOf(I32), I(1)), WSub(MinOf(I32), I(1))}
          ELSE {})

MythInit ==
    /\ overflow_checks \in BOOLEAN
    /\ ty \in MythTypes
    /\ ta \in MythSamples(ty)
    /\ tb = ta
    /\ steps = 0
    /\ op = "init"
    /\ arg = <<>>
    /\ res = ta

\* $Target::try_from(ta) for a narrower Myth $Target
MythTryFrom ==
    /\ op = "init"
    /\ \E target \in MythTypes :
          /\ WidthOf(target) < WidthOf(ty)
          /\ Returned("try_from", <<target, ta>>, try_from_myths(target, ty, ta))

MythRound ==
    /\ op = "init"
    /\ \E u \in UnitSamples :
          Returned("round", <<ta, u>>, round(WidthOf(ty), ta, u))

MythFloor ==
    /\ op = "init"
    /\ \E u \in UnitSamples :
          Returned("floor", <<ta, u>>, floor(WidthOf(ty), ta, u))

\* the value round returned, rounded to the same unit once more
MythRoundAgain ==
    /\ op = "round"
    /\ ~IsPanic(res)
    /\ Returned("round_again", <<arg[1], arg[2], res>>, round(WidthOf(ty), res, arg[2]))

\* format!("{ta:.p$}") and its variants with + and #
MythFmt ==
    /\ op = "init"
    /\ \E precision \in Precisions, sign_plus \in BOOLEAN, alternate \in BOOLEAN :
          Returned("fmt", <<ta, precision, sign_plus, alternate>>,
                   MythDisplay(WidthOf(ty), ta, precision, sign_plus, alternate))

\* $Self::from_str of the text just formatted
MythReparse ==
    /\ op = "fmt"
    /\ IsStr(res)
    /\ Returned("reparse", Append(arg, res), myth_from_str(WidthOf(ty), res.str))

MythNext ==
    \/ MythTryFrom \/ MythRound \/ MythFloor \/ MythFmt \/ MythReparse
    \/ MythRoundAgain

SpecMyth == MythInit /\ [][MythNext]_vars

----------------------------------------------------------------------------
(* Tolerances and text: the caller formats a Tolerance built with new and  *)
(* parses the text again, or converts a text or a slice it was given.      *)

TextValSamples(t) ==
    {MinOf(ValW(t)), I(-3500), I(0), I(140000), MaxOf(ValW(t))}
TextDevSamples(t) ==
    {MinOf(DevW(t)), I(-20), I(-5), I(0), I(5), I(20), MaxOf(DevW(t))}
TextTols(t) ==
    {new(t, v, p, m) : v \in TextValSamples(t),
                       p \in TextDevSamples(t), m \in TextDevSamples(t)}
        \ {Panic}

\* texts handed to from_str
TextSamples ==
    { Str(<<>>),
      Str(<<" ">>),
      Str(<<"7">>),
      Str(<<"1", "4", " ", "2">>),
      Str(<<"1", "4", " ", "-", "2">>),
      Str(<<"1", "4", " ", "1", " ", "2">>),
      Str(<<"1", "4", ".", "0", " ", "+", "1", " ", "-", "2">>),
      Str(<<"1", " ", "+", "/", "-", "0", ".", "5">>),
      Str(<<"1", ";", "2", ";", "3", " ", "4">>),
      Str(<<"7", "0", "0", " ", ".", "1", "/", "-", ".", "2", "5">>),
      Str(<<"1", "x">>) }

\* slices handed to try_from
SliceSamples(t) ==
    { <<>>,
      <<I(7)>>,
      <<I(14), I(2)>>,
      <<I(14), I(-2)>>,
      <<I(14), I(1), I(2)>>,
      <<I(14), I(1), I(-2)>>,
      <<I(14), MinOf(DevW(t))>>,
      <<MaxOf(I64), I(1), I(0)>>,
      <<I(1), I(2), I(3), I(4)>> }

TextInit ==
    /\ overflow_checks \in BOOLEAN
    /\ ty \in TolTypes
    /\ ta \in TextTols(ty)
    /\ tb = ta
    /\ steps = 0
    /\ op = "init"
    /\ arg = <<>>
    /\ res = ta

\* format!("{ta}"), format!("{ta:.p$}"), format!("{ta:#}")
TolFmt ==
    /\ op = "init"
    /\ \E precision \in Precisions, alternate \in BOOLEAN :
          Returned("fmt", <<ta, precision, alternate>>,
                   TolDisplay(ta, precision, alternate))

\* $Self::from_str of the text just formatted
TolReparse ==
    /\ op = "fmt"
    /\ IsStr(res)
    /\ Returned("reparse", Append(arg, res), tol_from_str(ty, res.str))

\* format!("{parsed:.p$}") of the Tolerance from_str just returned
TolFmtParsed ==
    /\ op = "from_str"
    /\ IsOk(res)
    /\ \E precision \in Precisions, alternate \in BOOLEAN :
          Returned("fmt_parsed", <<res.ok, precision, alternate>>,
                   TolDisplay(res.ok, precision, alternate))

TolFromStr ==
    /\ op = "init"
    /\ \E text \in TextSamples :
          Returned("from_str", <<text>>, tol_from_str(ty, text.str))

TolTryFromSlice ==
    /\ op = "init"
    /\ \E value \in SliceSamples(ty) :
          Returned("try_from_slice", <<value>>, try_from_slice(ty, value))

\* format!("{m:.p$}") of one field m of ta, a Myth of the value type or of
\* the deviation type
TolFmtField ==
    /\ op = "init"
    /\ \E field \in {"value", "plus", "minus"}, precision \in Precisions :
          LET w == IF field = "value" THEN ValW(ty) ELSE DevW(ty)
          IN Returned("fmt_field", <<w, ta[field], precision>>,
                      MythDisplay(w, ta[field], precision, FALSE, FALSE))

TextNext ==
    \/ TolFmt \/ TolReparse \/ TolFromStr \/ TolTryFromSlice \/ TolFmtParsed
    \/ TolFmtField

SpecText == TextInit /\ [][TextNext]_vars

----------------------------------------------------------------------------
(* Parsing: the caller holds a text in ta and hands it to from_str of the  *)
(* type ty, a Myth or a Tolerance.                                         *)

\* texts handed to from_str as they are
RawTexts ==
    { Str(<<>>),
      Str(<<" ", " ", " ">>),
      Str(<<" ", "-", " ", " ">>),
      Str(<<"\t">>),
      Str(<<"\n">>),
      Str(<<"U+3000", "\r", "\n", "U+00A0">>),
      Str(<<"\t", "1">>),
      Str(<<"1", "\n">>),
      Str(<<"\r", "\n", "1", " ">>),
      Str(<<"1", "\t", "2">>),
      Str(<<"1", "U+00A0", "2", "U+2003", "3">>),
      Str(<<"U+00E9">>),
      Str(<<"1", "U+00E9">>),
      Str(<<"1", ".", "2", "3", "U+00E9">>),
      Str(<<"1", ".", "2", "3", "4", "U+00E9">>),
      Str(<<"1", ".", "2", "3", "4", "5", "U+00E9">>),
      Str(<<"1", ".", "2", "U+20AC">>),
      Str(<<"1", ".", "U+1F600">>),
      Str(<<"1", ".", "2", "3", "4", "U+00FC">>),
      Str(<<"1", ".", "0", "0", "U+4E2D">>),
      Str(<<"1", ".", "0", "U+1F680">>),
      Str(<<"1", ".", "0", "0", "0", "U+4E2D">>),
      Str(<<"1", " ", "2", " ", "3", " ", "1", ".", "2", "3", "4", "U+00E9">>),
      Str(<<"+">>),
      Str(<<"0">>),
      Str(<<"1", "8">>),
      Str(<<" ", "+", "2", ".", "0", "7">>),
      Str(<<"-", "3", ".", "0", "1">>),
      Str(<<".", "0", "4">>),
      Str(<<"-", ".", "0", "4", "4">>),
      Str(<<"+", ".", "0", "1">>),
      Str(<<"0", ".", "0", "4">>),
      Str(<<"-", "0", ".", "0", "4", "4">>),
      Str(<<"+", "0", ".", "0", "1">>),
      Str(<<"1", ".", "2", "3", "4", "5", "x">>),
      Str(<<"1", ".", "2", "3", "x">>),
      Str(<<"1", "x", ".", "5">>),
      Str(<<"1", "2", "3", "4", "5", "*", "1", "2", "3", "4", "3">>),
      Str(<<"n", "i", "l">>),
      Str(<<".">>),
      Str(<<"1", ".">>),
      Str(<<"-", "-", "1">>),
      Str(<<"4">>),
      Str(<<"3", ".", "2", "7", "6", "8">>),
      Str(<<"-", "3", ".", "2", "7", "6", "8">>),
      Str(<<"2", "1", "4", "7", "4", "8", ".", "3", "6", "4", "8">>),
      Str(<<"9", "2", "2", "3", "3", "7", "2", "0", "3", "6", "8", "5", "4", "7", "8">>),
      Str(<<"9", "2", "2", "3", "3", "7", "2", "0", "3", "6", "8", "5", "4", "7", "7", ".", "5", "8", "0", "8">>),
      Str(<<"-", "9", "2", "2", "3", "3", "7", "2", "0", "3", "6", "8", "5", "4", "7", "7", ".", "5", "8", "0", "8">>),
      Str(<<"9", "9", "9", "9", "9", "9", "9", "9", "9", "9", "9", "9", "9", "9", "9", "9", "9", "9", "9", "9">>),
      Str(<<"1", "8", "4", "4", "6", "7", "4", "4", "0", "7", "3", "7", "0", "9", "5", "5", ".", "1", "6", "1", "6">>),
      Str(<<"-", "1", "2", "3", "4", "5", ".", "1", "2", "3", "4", "6", "3", "4", "5">>) }

\* the separators of a Tolerance text
Separators ==
    {<<" ">>, <<"\t">>, <<"U+00A0">>, <<"/">>, <<";">>, <<"+", "/", "-">>, <<"+", "-">>}

\* the numbers a caller writes into a Tolerance text
TokenLists ==
    { <<<<"1", "4", ".", "0">>>>,
      <<<<"1", "4">>>>,
      <<<<"1", "4", ".", "0">>, <<"2">>>>,
      <<<<"1", "4", ".", "0">>, <<"+", "1">>, <<"-", "2">>>>,
      <<<<"1", "4", ".", "0">>, <<"2">>, <<"1">>>>,
      <<<<"1", "4", ".", "0">>, <<"-", "1">>, <<"-", "2">>>>,
      <<<<"7", "0", "0">>, <<".", "1">>, <<"-", ".", "2", "5">>>>,
      <<<<"1">>, <<"2">>, <<"3">>, <<"4">>>>,
      <<<<"1">>, <<"2">>, <<"3">>, <<"4">>, <<"5">>>>,
      <<<<"1">>, <<"0", ".", "5">>>>,
      <<<<"1">>, <<"2">>, <<"x">>>>,
      <<<<"1">>, <<"2">>, <<"3">>, <<"x">>>>,
      <<<<"1", "4">>, <<"-", "3", ".", "2", "7", "6", "8">>>>,
      <<<<"3", "0", "0", "0", "0", "0">>, <<"1">>>>,
      <<<<"1">>, <<"4">>>> }

\* the text of the numbers with the separator between them
RECURSIVE Join(_, _)
Join(tokens, sep) ==
    IF tokens = <<>> THEN <<>>
    ELSE IF Len(tokens) = 1 THEN Head(tokens)
    ELSE Head(tokens) \o sep \o Join(Tail(tokens), sep)

\* a text written from numbers and a separator keeps them for reference
JoinedTexts ==
    {[str |-> Join(tl, sep), tokens |-> tl, sep |-> sep] :
        tl \in TokenLists, sep \in Separators}

ParseTexts == RawTexts \cup JoinedTexts

ParseInit ==
    /\ overflow_checks \in BOOLEAN
    /\ ty \in MythTypes \cup TolTypes
    /\ ta \in ParseTexts
    /\ tb = ta
    /\ steps = 0
    /\ op = "init"
    /\ arg = <<>>
    /\ res = ta

\* $Self::from_str(ta) for a Myth
ParseMyth ==
    /\ op = "init"
    /\ ty \in MythTypes
    /\ Returned("from_str", <<ta>>, myth_from_str(WidthOf(ty), ta.str))

\* $Self::from_str(ta) for a Tolerance
ParseTol ==
    /\ op = "init"
    /\ ty \in TolTypes
    /\ Returned("from_str", <<ta>>, tol_from_str(ty, ta.str))

ParseNext == ParseMyth \/ ParseTol

SpecParse == ParseInit /\ [][ParseNext]_vars

----------------------------------------------------------------------------
(* One operator applied to one Tolerance built with new: unary minus, a    *)
(* product, an operator that takes a Myth, narrow or narrow_sym.           *)

\* the factors of t * n (i32 or i64)
Factors == {-3, -1, 0, 1, 2, 70000}

\* the Myths of the value type and of the deviation type handed to + and -
ValueOperands(t) == {MinOf(ValW(t)), I(-700), I(0), I(45), MaxOf(ValW(t))}
TolOperands(t) == {MinOf(DevW(t)), I(-700), I(0), I(45), MaxOf(DevW(t))}

PartsInit ==
    /\ overflow_checks \in BOOLEAN
    /\ ty \in TolTypes
    /\ ta \in Built(ty)
    /\ tb = ta
    /\ steps = 0
    /\ op = "init"
    /\ arg = <<>>
    /\ res = ta

\* -ta
OnceNeg == op = "init" /\ Returned("neg", <<ta>>, neg(ta))

\* ta * n
OnceMul ==
    /\ op = "init"
    /\ \E n \in Factors : Returned("mul", <<ta, n>>, mul(ta, n))

\* ta + m and ta - m
OnceAddMyth ==
    /\ op = "init"
    /\ \/ \E m \in ValueOperands(ty) : Returned("add_value", <<ta, m>>, add_value(ta, m))
       \/ \E m \in TolOperands(ty) : Returned("add_tol", <<ta, m>>, add_tol(ta, m))
OnceSubMyth ==
    /\ op = "init"
    /\ \/ \E m \in ValueOperands(ty) : Returned("sub_value", <<ta, m>>, sub_value(ta, m))
       \/ \E m \in TolOperands(ty) : Returned("sub_tol", <<ta, m>>, sub_tol(ta, m))

\* ta += m and ta -= m
OnceAddAssignMyth ==
    /\ op = "init"
    /\ \/ \E m \in ValueOperands(ty) :
             Returned("add_assign_value", <<ta, m>>, add_assign_value(ta, m))
       \/ \E m \in TolOperands(ty) :
             Returned("add_assign_tol", <<ta, m>>, add_assign_tol(ta, m))
OnceSubAssignMyth ==
    /\ op = "init"
    /\ \/ \E m \in ValueOperands(ty) :
             Returned("sub_assign_value", <<ta, m>>, sub_assign_value(ta, m))
       \/ \E m \in TolOperands(ty) :
             Returned("sub_assign_tol", <<ta, m>>, sub_assign_tol(ta, m))

OnceNarrow == op = "init" /\ DoNarrow
OnceNarrowSym == op = "init" /\ DoNarrowSym

PartsNext ==
    \/ OnceNeg \/ OnceMul \/ OnceAddMyth \/ OnceSubMyth
    \/ OnceAddAssignMyth \/ OnceSubAssignMyth \/ OnceNarrow \/ OnceNarrowSym

SpecParts == PartsInit /\ [][PartsNext]_vars

----------------------------------------------------------------------------
(* Subtraction: the caller holds ta and tb, both built with new, and       *)
(* subtracts tb from ta with -, with -= or by adding the inversion.        *)

\* the right operands
Subtrahends(t) ==
    {new(t, v, p[1], p[2]) :
        v \in ValSamples(t),
        p \in {<<I(0), I(0)>>, <<I(20), I(-10)>>,
               <<MaxOf(DevW(t)), MinOf(DevW(t))>>, <<I(-10), MinOf(DevW(t))>>}}

MinusInit ==
    /\ overflow_checks \in BOOLEAN
    /\ ty \in TolTypes
    /\ ta \in Built(ty)
    /\ tb \in Subtrahends(ty)
    /\ steps = 0
    /\ op = "init"
    /\ arg = <<>>
    /\ res = ta

\* ta -= tb
OnceSubAssign == op = "init" /\ Returned("sub_assign", <<ta, tb>>, sub_assign(ta, tb))

\* ta += tb
OnceAddAssign == op = "init" /\ Returned("add_assign", <<ta, tb>>, add_assign(ta, tb))

\* ta + tb.invert() and ta + !tb: the inversion is computed first
OnceAddInversion ==
    /\ op = "init"
    /\ \/ Returned("add_invert", <<ta, tb>>,
                   Let(invert(tb), LAMBDA inverted :
                       IF IsPanic(inverted) THEN Panic ELSE add(ta, inverted)))
       \/ Returned("add_not", <<ta, tb>>,
                   Let(not(tb), LAMBDA inverted :
                       IF IsPanic(inverted) THEN Panic ELSE add(ta, inverted)))

\* tb.invert().invert()
OnceInvertTwice ==
    /\ op = "init"
    /\ Returned("invert_twice", <<tb>>,
                Let(invert(tb), LAMBDA inverted :
                    IF IsPanic(inverted) THEN Panic ELSE invert(inverted)))

MinusNext ==
    \/ OnceSub \/ OnceSubAssign \/ OnceAddAssign \/ OnceAddInversion \/ OnceInvertTwice

SpecMinus == MinusInit /\ [][MinusNext]_vars

----------------------------------------------------------------------------
(* The byte form: the caller holds a Tolerance, takes its bytes in one of  *)
(* the three byte orders and builds a Tolerance from bytes again.          *)

\* the Tolerance of the crate's test serialize_to_u8_array
BytesTest(t) == [ty |-> t, value |-> I(1234567890), plus |-> I(123455), minus |-> I(-124555)]

\* built with new, or filled in as a struct literal (plus below minus too)
BytesTols(t) ==
    TextTols(t)
        \cup (IF t = "T128" THEN {BytesTest(t)} ELSE {})
        \cup {[ty |-> t, value |-> I(-1), plus |-> MinOf(DevW(t)), minus |-> MaxOf(DevW(t))],
              [ty |-> t, value |-> I(256), plus |-> I(-2), minus |-> I(255)]}

BytesInit ==
    /\ overflow_checks \in BOOLEAN
    /\ ty \in TolTypes
    /\ ta \in BytesTols(ty)
    /\ tb = ta
    /\ steps = 0
    /\ op = "init"
    /\ arg = <<>>
    /\ res = ta

\* ta.to_be_bytes(), ta.to_le_bytes()
ToBytes ==
    /\ op = "init"
    /\ \/ Returned("to_bytes", <<ta, "be">>, to_be_bytes(ta))
       \/ Returned("to_bytes", <<ta, "le">>, to_le_bytes(ta))

\* ta.to_ne_bytes() on a big-endian or a little-endian target
ToNeBytes ==
    /\ op = "init"
    /\ \E target_endian \in ByteOrders :
          Returned("to_ne_bytes", <<ta, target_endian>>, to_ne_bytes(ta, target_endian))

\* $Self::from_X_bytes of the bytes to_X_bytes just returned
FromBytes ==
    /\ op = "to_bytes"
    /\ IsBytes(res)
    /\ Returned("from_bytes", Append(arg, res),
                IF arg[2] = "be" THEN from_be_bytes(ty, res.bytes)
                ELSE from_le_bytes(ty, res.bytes))

\* $Self::from_ne_bytes of the bytes to_ne_bytes just returned, same target
FromNeBytes ==
    /\ op = "to_ne_bytes"
    /\ IsBytes(res)
    /\ Returned("from_ne_bytes", Append(arg, res), from_ne_bytes(ty, res.bytes, arg[2]))

BytesNext == ToBytes \/ ToNeBytes \/ FromBytes \/ FromNeBytes

SpecBytes == BytesInit /\ [][BytesNext]_vars

----------------------------------------------------------------------------
(* Floats: the caller holds an f64 of millimetres and turns it into a Myth *)
(* of type ty, and a Myth it got it turns into the next narrower one.      *)

\* 0.0, 0.5, -0.25, 1/32, 3.0, 3.25, 3.28125, 4.0, the ends of the ranges
\* as floats, 1e15 ...
F64Samples ==
    {F64(I(q)) : q \in {0, 16, -8, 1, -1, 96, 104, 105, -105, 128, -128}}
    \cup {F64(W(n, d)) :
            n \in BOOLEAN,
            d \in {<<2,8,8,2,3,0,3,7,6,1,5,1,7,1>>,
                   <<9,0,0,7,1,9,9,2,5,4,7,4,0,9,9,1>>,
                   <<4,5,0,3,5,9,9,6,2,7,3,7,0,4,9,7>>}}
    \cup {F64(WMulI(x, 32)) :
            x \in {WSub(MaxOf(I16), I(1)), MaxOf(I16), MinOf(I16), I(40000),
                   I(214748), I(214749), I(-214749), MaxOf(I32), MinOf(I32),
                   WSub(MaxOf(I32), I(1)),
                   W(FALSE, <<1,0,0,0,0,0,0,0,0,0,0,0,0,0,0,0>>),
                   W(TRUE, <<1,0,0,0,0,0,0,0,0,0,0,0,0,0,0,0>>),
                   WAdd(MaxOf(I64), I(1)), MinOf(I64)}}

FloatInit ==
    /\ overflow_checks \in BOOLEAN
    /\ ty \in MythTypes
    /\ ta \in F64Samples
    /\ tb = ta
    /\ steps = 0
    /\ op = "init"
    /\ arg = <<>>
    /\ res = ta

\* $Self::from(f)
MythFromF64 ==
    /\ op = "init"
    /\ Returned("from_f64", <<ty, ta>>, from_f64(WidthOf(ty), ta))

\* $Target::try_from(m) of the Myth that from returned
FloatTryFrom ==
    /\ op = "from_f64"
    /\ ~IsPanic(res)
    /\ \E target \in MythTypes :
          /\ WidthOf(target) < WidthOf(ty)
          /\ Returned("try_from", <<target, res>>, try_from_myths(target, ty, res))

FloatNext == MythFromF64 \/ FloatTryFrom

SpecFloat == FloatInit /\ [][FloatNext]_vars

----------------------------------------------------------------------------
(* Claims about the Tolerance operators.                                   *)

Tol(t, v, p, m) == [ty |-> t, value |-> I(v), plus |-> I(p), minus |-> I(m)]

\* C1: a - b takes value = a.value - b.value, plus = a.plus - b.minus and
\* minus = a.minus - b.plus (the deviations cross).  Whenever the three
\* differences fit their fields the result is exactly that Tolerance; a
\* difference that does not fit is the only way to get a panic, and in a
\* build that does not check overflow the field holds the difference
\* truncated to its width.
C1_SubCrosses ==
    op = "sub" =>
        LET a == arg[1]
            b == arg[2]
            v == WSub(a.value, b.value)
            p == WSub(a.plus, b.minus)
            m == WSub(a.minus, b.plus)
            fits == /\ InRange(ValW(a.ty), v)
                    /\ InRange(DevW(a.ty), p)
                    /\ InRange(DevW(a.ty), m)
        IN /\ fits => res = [ty |-> a.ty, value |-> v, plus |-> p, minus |-> m]
           /\ IsTol(res) =>
                 /\ res.value = Wrap(ValW(a.ty), v)
                 /\ res.plus = Wrap(DevW(a.ty), p)
                 /\ res.minus = Wrap(DevW(a.ty), m)
           /\ ~IsTol(res) => IsPanic(res) /\ overflow_checks /\ ~fits

\* (1000,0,0) - (300,20,-10) == (700,10,-20), for T64 and for T128
C1_Witness ==
    /\ op = "sub"
    /\ arg = <<Tol(ty, 1000, 0, 0), Tol(ty, 300, 20, -10)>>
    /\ res = Tol(ty, 700, 10, -20)

\* C2: every Tolerance that new, with_sym, narrow, narrow_sym, invert, !,
\* + or - returns has plus >= minus.
C2_PlusGeMinus == IsTol(res) => WGe(res.plus, res.minus)

\* C10: cmp orders by value, then minus, then plus; it is a total order,
\* Equal exactly for equal Tolerances; partial_cmp is Some of what cmp says.
FieldsLess(a, b) ==
    \/ WLt(a.value, b.value)
    \/ a.value = b.value /\ WLt(a.minus, b.minus)
    \/ a.value = b.value /\ a.minus = b.minus /\ WLt(a.plus, b.plus)

C10_Ordering ==
    /\ op = "cmp" =>
          LET a == arg[1]
              b == arg[2]
          IN /\ res.ordering \in {"Less", "Equal", "Greater"}
             /\ res.ordering = "Less" <=> FieldsLess(a, b)
             /\ res.ordering = "Greater" <=> FieldsLess(b, a)
             /\ res.ordering = "Equal" <=> a = b
             /\ \A c \in Built(ty) :
                   FieldsLess(a, b) /\ FieldsLess(b, c) => FieldsLess(a, c)
    /\ op = "partial_cmp" =>
          LET a == arg[1]
              b == arg[2]
          IN /\ res.some = "Less" <=> FieldsLess(a, b)
             /\ res.some = "Greater" <=> FieldsLess(b, a)
             /\ res.some = "Equal" <=> a = b

\* equal values, and the Tolerance with the larger upper limit is the
\* smaller one because its minus is smaller
C10_Witness ==
    /\ op = "cmp"
    /\ arg[1].value = arg[2].value
    /\ WGt(arg[1].plus, arg[2].plus)
    /\ WLt(arg[1].minus, arg[2].minus)
    /\ res.ordering = "Less"

----------------------------------------------------------------------------
(* Claims about the Myth types.                                            *)

\* C4: narrowing a Myth with try_from (Myth64 to Myth32, Myth64 to Myth16,
\* Myth32 to Myth16) returns Ok with the same tick count when the ticks fit
\* the target's width and Err(Overflow) otherwise.
C4_NarrowingChecked ==
    op = "try_from" =>
        res = IF InRange(WidthOf(arg[1]), arg[2]) THEN Ok(arg[2]) ELSE Err("Overflow")

\* the multiple of m nearest to x, the one farther from zero when x lies
\* halfway between two multiples (m > 0)
NearestMultiple(x, m) ==
    LET r == WRemI(x, m)
        a == IF r < 0 THEN 0 - r ELSE r
        down == WSub(x, I(r))
    IN IF 2 * a < m THEN down
       ELSE IF x.neg THEN WSub(down, I(m)) ELSE WAdd(down, I(m))

\* C5: x.round(unit) is the multiple of the unit's multiplier m nearest to
\* x (also for an odd m such as 3), ties go away from zero, and a unit with
\* multiplier 0 returns x.  Stated wherever that multiple is a value of the
\* type.
C5_RoundNearest ==
    op = "round" =>
        LET x == arg[1]
            m == arg[2]
        IN IF m = 0 THEN res = x
           ELSE InRange(WidthOf(ty), NearestMultiple(x, m)) =>
                    res = NearestMultiple(x, m)

\* the greatest multiple of m that is <= x (m > 0)
FloorMultiple(x, m) ==
    LET r == WRemI(x, m)
    IN IF r < 0 THEN WSub(WSub(x, I(r)), I(m)) ELSE WSub(x, I(r))

\* C6: for a unit with multiplier m > 0, x.floor(unit) is the greatest
\* multiple of m that is <= x, a negative exact multiple is returned
\* unchanged, and flooring the result again changes nothing.  Stated
\* wherever that multiple is a value of the type.
C6_FloorIsFloor ==
    (op = "floor" /\ arg[2] > 0 /\ InRange(WidthOf(ty), I(arg[2]))) =>
        LET x == arg[1]
            m == arg[2]
        IN InRange(WidthOf(ty), FloorMultiple(x, m)) =>
              /\ res = FloorMultiple(x, m)
              /\ floor(WidthOf(ty), res, m) = res

\* C7: formatting a Myth with precision 4 gives a text, and parsing that
\* text returns Ok of the same Myth, for every value up to MIN and MAX of
\* each width.
C7_MythRoundTrip ==
    /\ (op = "fmt" /\ arg[2] = Some(4) /\ ~arg[3] /\ ~arg[4]) => IsStr(res)
    /\ (op = "reparse" /\ arg[2] = Some(4) /\ ~arg[3] /\ ~arg[4]) => res = Ok(arg[1])

----------------------------------------------------------------------------
(* Claims about Tolerances and text.                                       *)

\* C3: a Tolerance that from_str, the conversion of an Option triple behind
\* it, or the conversion of a slice returns as Ok has plus >= minus.
C3_ParsedPlusGeMinus ==
    (op \in {"from_str", "try_from_slice"} /\ IsOk(res)) =>
        WGe(res.ok.plus, res.ok.minus)

\* C8: formatting a Tolerance (plus >= minus) with precision 4 gives a
\* text, and parsing that text returns Ok of the same Tolerance.
C8_TolRoundTrip ==
    /\ (op = "fmt" /\ arg[2] = Some(4) /\ ~arg[3]) => IsStr(res)
    /\ (op = "reparse" /\ arg[2] = Some(4) /\ ~arg[3]) => res = Ok(arg[1])

\* C9: parsing the text that to_string() (the format without a precision)
\* gave for a Tolerance returns Ok of the same Tolerance, also when plus or
\* minus is not a multiple of 10 ticks.
C9_EatsOwnOutput ==
    (op = "reparse" /\ arg[2] = None /\ ~arg[3]) => res = Ok(arg[1])

----------------------------------------------------------------------------
(* Claims about parsing.                                                   *)

\* The FixedPoint grammar as the specification words it: whitespace around,
\* one optional sign, digits, and optionally a '.' and digits; the integer
\* part may be left out when a fraction follows.
Unsigned(cs) ==
    LET t == Trim(cs)
    IN IF t # <<>> /\ Head(t) \in {"+", "-"} THEN Tail(t) ELSE t
IsNegative(cs) == LET t == Trim(cs) IN t # <<>> /\ Head(t) = "-"
IntegerPart(cs) ==
    LET u == Unsigned(cs)
        dot == FindFrom(u, ".", 1)
    IN IF dot = 0 THEN u ELSE SubSeq(u, 1, dot - 1)
FractionPart(cs) ==
    LET u == Unsigned(cs)
        dot == FindFrom(u, ".", 1)
    IN IF dot = 0 THEN <<>> ELSE SubSeq(u, dot + 1, Len(u))
AllDigits(cs) == \A i \in 1..Len(cs) : IsDigit(cs[i])
IsNumber(cs) ==
    /\ AllDigits(IntegerPart(cs))
    /\ AllDigits(FractionPart(cs))
    /\ IntegerPart(cs) \o FractionPart(cs) # <<>>

\* the ticks a number denotes: its integer digits followed by its first
\* four fraction digits, exactly
Denoted(cs) ==
    LET digs == IntegerPart(cs) \o SubSeq(FractionPart(cs) \o Zeros(4), 1, 4)
    IN W(IsNegative(cs), NStrip([i \in 1..Len(digs) |-> DigitOf(digs[i])]))

\* C11: a Myth text with an integer part whose digits denote ticks outside
\* the target width is answered with Err(Overflow), whatever the length of
\* the integer part: no panic, no wrapped value.
C11_OverflowIsAnError ==
    (/\ op = "from_str"
     /\ ty \in MythTypes
     /\ IsNumber(arg[1].str)
     /\ IntegerPart(arg[1].str) # <<>>
     /\ ~InRange(WidthOf(ty), Denoted(arg[1].str)))
        => res = Err("Overflow")

\* C12: a Myth text without integer part (".f", "+.f", "-.f") parses to
\* the ticks of "0.f", "+0.f", "-0.f".
C12_OmittedIntegerPart ==
    (/\ op = "from_str"
     /\ ty \in MythTypes
     /\ IsNumber(arg[1].str)
     /\ IntegerPart(arg[1].str) = <<>>
     /\ InRange(WidthOf(ty), Denoted(arg[1].str)))
        => res = Ok(Denoted(arg[1].str))

\* C13: a Myth text with a character that is not a digit in its integer
\* part (after the sign) or anywhere in its fraction, also behind the
\* fourth fraction digit, is answered with Err(ParseError).
C13_NonDigitRejected ==
    (/\ op = "from_str"
     /\ ty \in MythTypes
     /\ ~(AllDigits(IntegerPart(arg[1].str)) /\ AllDigits(FractionPart(arg[1].str))))
        => (IsErr(res) /\ res.err = "ParseError")

\* C14: from_str of a text that is empty, or empty once the whitespace is
\* trimmed, returns Err(ParseError) with the message about an empty string,
\* for Myth16, Myth32, Myth64, T64 and T128.
C14_EmptyIsParseError ==
    (op = "from_str" /\ Trim(arg[1].str) = <<>>) => res = ParseErr("empty string")

\* three blanks handed to a Myth
C14_Witness ==
    /\ op = "from_str"
    /\ ty \in MythTypes
    /\ arg[1] = Str(<<" ", " ", " ">>)
    /\ res = ParseErr("empty string")

\* C15: a Tolerance text of one number v gives (v, 0, 0), of two numbers
\* v p gives (v, p, -p), of three numbers v p m gives (v, p, m); each
\* number is read as millimetres with the FixedPoint grammar (an integer
\* part that may be left out before a fraction), and the separators
\* whitespace, '/', ';', "+/-" and "+-" are interchangeable.  The fields are
\* the ticks the numbers denote, wherever those fit the fields.
C15_TokensToFields ==
    (/\ op = "from_str"
     /\ ty \in TolTypes
     /\ "tokens" \in DOMAIN arg[1]
     /\ \A i \in 1..Len(arg[1].tokens) : IsNumber(arg[1].tokens[i])) =>
        LET tokens == arg[1].tokens
            n == Len(tokens)
            ticks == [i \in 1..n |-> Denoted(tokens[i])]
            fits(i, w) == InRange(w, ticks[i])
            tol(v, p, m) == Ok([ty |-> ty, value |-> v, plus |-> p, minus |-> m])
        IN /\ (n = 1 /\ fits(1, ValW(ty))) => res = tol(ticks[1], I(0), I(0))
           /\ (n = 2 /\ fits(1, ValW(ty)) /\ fits(2, DevW(ty))
                    /\ InRange(DevW(ty), WNeg(ticks[2])))
                 => res = tol(ticks[1], ticks[2], WNeg(ticks[2]))
           /\ (n = 3 /\ fits(1, ValW(ty)) /\ fits(2, DevW(ty)) /\ fits(3, DevW(ty)))
                 => res = tol(ticks[1], ticks[2], ticks[3])
           /\ res = tol_from_str(ty, Join(tokens, <<" ">>))

\* C16: a Tolerance text of four or more well-formed numbers is rejected
\* with Err(ParseError); it is not parsed from its first three numbers.
C16_FourTokensRejected ==
    (/\ op = "from_str"
     /\ ty \in TolTypes
     /\ "tokens" \in DOMAIN arg[1]
     /\ Len(arg[1].tokens) >= 4
     /\ \A i \in 1..Len(arg[1].tokens) : IsNumber(arg[1].tokens[i]))
        => (IsErr(res) /\ res.err = "ParseError")

----------------------------------------------------------------------------
(* Claims about containment, inversion and repeated rounding.              *)

\* C17: t.is_inside_of(t) returns true for every Tolerance t of T64 and
\* T128, also when value + plus or value + minus is at the end of the range
\* of the value type.
C17_InsideOfItself ==
    (op = "is_inside_of" /\ arg[1] = arg[2]) => res = [bool |-> TRUE]

\* C18: t + t.invert() (and t + !t) is the Tolerance with value 0, plus =
\* t.plus - t.minus and minus = t.minus - t.plus, for every Tolerance t.
\* Stated wherever the two differences are values of the deviation type.
C18_AddInverted ==
    op = "add_inverted" =>
        LET t == arg[1]
            p == WSub(t.plus, t.minus)
            m == WSub(t.minus, t.plus)
        IN (InRange(DevW(t.ty), p) /\ InRange(DevW(t.ty), m)) =>
               res = [ty |-> t.ty, value |-> I(0), plus |-> p, minus |-> m]

\* C19: whenever x.round(u) returns, rounding what it returned to u again
\* returns the same value.
C19_RoundIdempotent == op = "round_again" => res = arg[3]

----------------------------------------------------------------------------
(* Claims about the digits Display prints.                                 *)

\* the number of fraction digits of a printed number (0 without a '.')
FractionDigits(cs) ==
    LET dot == FindFrom(cs, ".", 1) IN IF dot = 0 THEN 0 ELSE Len(cs) - dot

\* the three pieces of a printed Tolerance "value plus/minus"
ValuePiece(cs) == SubSeq(cs, 1, FindFrom(cs, " ", 1) - 1)
PlusPiece(cs) == SubSeq(cs, FindFrom(cs, " ", 1) + 1, FindFrom(cs, "/", 1) - 1)
MinusPiece(cs) == SubSeq(cs, FindFrom(cs, "/", 1) + 1, Len(cs))

\* the T128 that "14.0 +1 -2" parses to
Parsed14 == Tol("T128", 140000, 10000, -20000)

\* C20 as claimed: with precision p the value, plus and minus are each
\* printed with p fraction digits; the T128 parsed from "14.0 +1 -2" is
\* printed at precision 1 as "14.0 +1.0/-2.0".
C20_SameDigits ==
    /\ (op = "fmt_parsed" /\ arg = <<Parsed14, Some(1), FALSE>>)
          => res = Str(<<"1", "4", ".", "0", " ", "+", "1", ".", "0", "/", "-", "2", ".", "0">>)
    /\ (op \in {"fmt", "fmt_parsed"} /\ IsSome(arg[2]) /\ ~arg[3] /\ IsStr(res))
          => /\ FractionDigits(ValuePiece(res.str)) = Min(arg[2].some, 4)
             /\ FractionDigits(MinusPiece(res.str)) = Min(arg[2].some, 4)

\* C20 amended: with precision p the value is printed with p fraction
\* digits and plus and minus with p + 1 (never more than 4 each; the
\* symmetric form "+/-" prints the one magnitude); the T128 parsed from
\* "14.0 +1 -2" is printed at precision 1 as "14.0 +1.00/-2.00".
C20_DeviationsOneMore ==
    /\ (op = "fmt_parsed" /\ arg = <<Parsed14, Some(1), FALSE>>)
          => res = Str(<<"1", "4", ".", "0", " ", "+", "1", ".", "0", "0", "/", "-", "2", ".", "0", "0">>)
    /\ (op \in {"fmt", "fmt_parsed"} /\ IsSome(arg[2]) /\ ~arg[3] /\ IsStr(res))
          => /\ FractionDigits(ValuePiece(res.str)) = Min(arg[2].some, 4)
             /\ FractionDigits(MinusPiece(res.str)) = Min(arg[2].some + 1, 4)
             /\ PlusPiece(res.str) # <<"+">>
                   => FractionDigits(PlusPiece(res.str)) = Min(arg[2].some + 1, 4)

C20_Witness ==
    /\ op = "fmt_parsed"
    /\ arg = <<Parsed14, Some(1), FALSE>>
    /\ res = Str(<<"1", "4", ".", "0", " ", "+", "1", ".", "0", "0", "/", "-", "2", ".", "0", "0">>)

----------------------------------------------------------------------------
(* Claims about the compact form, the byte form and floats.                *)

\* the printed Tolerance has the compact form "value +/-magnitude"
IsCompact(cs) == PlusPiece(cs) = <<"+">>

\* the unit plus and minus are rounded to before they are printed
PrintedUnit(precision) ==
    potency(4 - Min(IF IsSome(precision) THEN precision.some + 1 ELSE 3, 4))

\* C21 as claimed: without '#' a Tolerance with plus >= minus is printed
\* in the compact form exactly when its stored plus equals the negation of
\* its stored minus, at every precision.
C21_CompactIffStoredSymmetric ==
    (/\ op \in {"fmt", "fmt_parsed"}
     /\ ~arg[3]
     /\ IsStr(res)
     /\ WGe(arg[1].plus, arg[1].minus))
        => (IsCompact(res.str) <=> arg[1].plus = WNeg(arg[1].minus))

\* C21 amended: without '#' a Tolerance is printed in the compact form
\* exactly when plus and minus, each rounded to the last digit printed for
\* them in the integer of the deviation type, are the negation of one
\* another in that type and the rounded plus is not negative.
C21_CompactIffPrintedSymmetric ==
    (/\ op \in {"fmt", "fmt_parsed"}
     /\ ~arg[3]
     /\ IsStr(res))
        => LET w == DevW(arg[1].ty)
               plus == Wrap(w, NearestMultiple(arg[1].plus, PrintedUnit(arg[2])))
               minus == Wrap(w, NearestMultiple(arg[1].minus, PrintedUnit(arg[2])))
           IN IsCompact(res.str) <=> (plus = Wrap(w, WNeg(minus)) /\ ~plus.neg)

\* plus = 0.002 and minus = -0.0005 are printed as "+/-0.0" at precision 0
C21_Witness ==
    /\ op = "fmt"
    /\ arg[1].plus = I(20)
    /\ arg[1].minus = I(-5)
    /\ arg[2] = Some(0)
    /\ ~arg[3]
    /\ IsStr(res)
    /\ IsCompact(res.str)


\* the integer of width w that big-endian bytes denote, summed byte by byte
RECURSIVE Denotes(_, _)
Denotes(w, bytes) ==
    IF bytes = <<>> THEN I(0)
    ELSE Wrap(w, WAdd(WMulI(Denotes(w, Front(bytes)), 256), I(Last(bytes))))

\* C22: to_be_bytes / to_le_bytes / to_ne_bytes return the bytes of value,
\* then plus, then minus in the chosen byte order (to_ne_bytes in the order
\* of the target), size(value) + 2 * size(deviation) bytes in all (16 for
\* T128, 8 for T64), and from_X_bytes of them is the Tolerance again.
C22_ByteForm ==
    /\ op \in {"to_bytes", "to_ne_bytes"} =>
          LET t == arg[1]
              n == size_of(ValW(ty))
              k == size_of(DevW(ty))
              ordered(bs) == IF arg[2] = "be" THEN bs ELSE Reverse(bs)
          IN /\ IsBytes(res)
             /\ Len(res.bytes) = n + 2 * k
             /\ Len(res.bytes) = IF ty = "T128" THEN 16 ELSE 8
             /\ \A i \in 1..Len(res.bytes) : res.bytes[i] \in 0..255
             /\ Denotes(ValW(ty), ordered(SubSeq(res.bytes, 1, n))) = t.value
             /\ Denotes(DevW(ty), ordered(SubSeq(res.bytes, n + 1, n + k))) = t.plus
             /\ Denotes(DevW(ty), ordered(SubSeq(res.bytes, n + k + 1, n + 2 * k))) = t.minus
    /\ op \in {"from_bytes", "from_ne_bytes"} => res = arg[1]
    /\ (op = "to_bytes" /\ arg = <<BytesTest("T128"), "be">>) =>
          res = Bytes(<<0, 0, 0, 0, 73, 150, 2, 210, 0, 1, 226, 63, 255, 254, 25, 117>>)
    /\ (op = "to_bytes" /\ arg = <<BytesTest("T128"), "le">>) =>
          res = Bytes(<<210, 2, 150, 73, 0, 0, 0, 0, 63, 226, 1, 0, 117, 25, 254, 255>>)

\* the test's Tolerance came back from its little-endian bytes
C22_Witness ==
    /\ op = "from_bytes"
    /\ arg = <<BytesTest("T128"), "le",
               Bytes(<<210, 2, 150, 73, 0, 0, 0, 0, 63, 226, 1, 0, 117, 25, 254, 255>>)>>
    /\ res = BytesTest("T128")

\* C23: $Self::from(f) of a float f of millimetres returns trunc(f * 10000)
\* ticks, the product being the one of f64, or panics, and it panics whenever f * 10000 is outside the range
\* of the type: it never returns the end of the range in its place.
C23_FromF64ExactOrAbort ==
    op = "from_f64" =>
        LET w == WidthOf(arg[1])
            ticks == WDivI(mul_10000(arg[2]), 2)
        IN IF InRange(w, ticks) THEN res \in {ticks, Panic} ELSE res = Panic

----------------------------------------------------------------------------
(* Claims about unary minus, products and subtraction.                     *)

\* C24: for a Tolerance t with plus >= minus, -t is the Tolerance with
\* value = -t.value, plus = -t.plus and minus = -t.minus, and it is equal
\* to t * (-1).  Stated wherever the three negations are values of their
\* types.
C24_NegNegatesAll ==
    (/\ op = "neg"
     /\ WGe(arg[1].plus, arg[1].minus)
     /\ InRange(ValW(ty), WNeg(arg[1].value))
     /\ InRange(DevW(ty), WNeg(arg[1].plus))
     /\ InRange(DevW(ty), WNeg(arg[1].minus)))
        => /\ res = [ty |-> ty, value |-> WNeg(arg[1].value),
                     plus |-> WNeg(arg[1].plus), minus |-> WNeg(arg[1].minus)]
           /\ res = mul(arg[1], -1)

\* C25: after `a -= b` the variable a holds (old a) - b: its plus is old
\* a.plus - b.minus, its minus is old a.minus - b.plus, and plus >= minus.
C25_SubAssignIsSub ==
    op = "sub_assign" =>
        /\ res = sub(arg[1], arg[2])
        /\ IsTol(res) => WGe(res.plus, res.minus)

\* C26: for a Tolerance t with plus >= minus and an integer n, negative n
\* included, t * n satisfies plus >= minus.
C26_MulKeepsOrder ==
    (op = "mul" /\ WGe(arg[1].plus, arg[1].minus) /\ IsTol(res))
        => WGe(res.plus, res.minus)

\* C27: a + b.invert() and a + !b are what a - b is, a panic for a panic,
\* and t.invert().invert() is t.
C27_SubIsAddInverted ==
    /\ op \in {"add_invert", "add_not"} => res = sub(arg[1], arg[2])
    /\ op = "invert_twice" => res = arg[1]

----------------------------------------------------------------------------
(* Claims about the parts an operation leaves alone.                       *)

\* C30: t + m, t - m, t += m and t -= m with a Myth m of the value type
\* or of the deviation type return t's plus and minus and move the value
\* by m (wherever the moved value is a value of its type); narrow(p, m)
\* and narrow_sym(tol) return t's value with the plus and minus they were
\* given.
C30_OtherPartsKept ==
    /\ (op \in {"add_value", "add_tol", "add_assign_value", "add_assign_tol",
                "sub_value", "sub_tol", "sub_assign_value", "sub_assign_tol"}
        /\ IsTol(res))
          => LET moved == IF op \in {"add_value", "add_tol",
                                     "add_assign_value", "add_assign_tol"}
                          THEN WAdd(arg[1].value, arg[2])
                          ELSE WSub(arg[1].value, arg[2])
             IN /\ res.plus = arg[1].plus
                /\ res.minus = arg[1].minus
                /\ InRange(ValW(ty), moved) => res.value = moved
    /\ (op = "narrow" /\ IsTol(res))
          => res = [ty |-> ty, value |-> arg[1].value, plus |-> arg[2], minus |-> arg[3]]
    /\ (op = "narrow_sym" /\ IsTol(res))
          => /\ res.value = arg[1].value
             /\ res.plus = arg[2]
             /\ InRange(DevW(ty), WNeg(arg[2])) => res.minus = WNeg(arg[2])

\* 300 +20/-10 ticks after `-= 45` of the deviation type
C30_Witness ==
    /\ op = "sub_assign_tol"
    /\ arg = <<Tol("T64", 300, 20, -10), I(45)>>
    /\ res = Tol("T64", 255, 20, -10)

----------------------------------------------------------------------------
(* Claims about rounding to a unit beyond the type, and about Display at   *)
(* the ends of the range.                                                  *)

\* C28: for a unit whose multiplier is not a value of the backing integer
\* (Unit::CM = 100000 or Unit::INCH for Myth16), x.round(unit) panics, as
\* floor does, or returns the multiple of the true multiplier nearest to
\* x: Myth16(100).round(Unit::CM) is 0 or a panic.
C28_RoundTrueMultiplier ==
    (op = "round" /\ arg[2] # 0 /\ ~InRange(WidthOf(ty), I(arg[2])))
        => (res = Panic \/ res = NearestMultiple(arg[1], arg[2]))

\* C29: Display of a Myth in the range of its type (MIN and MAX included)
\* and of a Tolerance built from such Myths, at the default precision or
\* at a precision 0..4, returns a string: it does not panic, and no
\* overflow turns the sign of a printed Myth.
C29_DisplayIsTotal ==
    /\ (op = "fmt_field" /\ (arg[3] = None \/ arg[3].some <= 4))
           => (IsStr(res) /\ (IsNegative(res.str) => arg[2].neg))
    /\ (op = "fmt" /\ (arg[2] = None \/ arg[2].some <= 4)) => IsStr(res)

====
